---- MODULE Spec2Model ----
(***************************************************************************)
(* Model of src/src/lib/zoho.ts of the Anvaya app: the shared retry helper *)
(* zFetchJSON, the outstanding (aging) aggregation fetchOutstandingForOrg  *)
(* and the sale-order dispatch-status builder fetchSaleOrderStatusMTM.     *)
(*                                                                         *)
(* Conventions                                                             *)
(*  - money is an integer number of mills (1/1000 of the currency unit),   *)
(*    so that round2 (rounding to cents) is not the identity;              *)
(*  - a date string "YYYY-MM-DD" is its day number (> 0); 0 is a missing,  *)
(*    empty or unparseable date.  The order of day numbers is the          *)
(*    lexicographic order of the ISO strings, '' being the least;          *)
(*  - a delay is an integer number of tenths of a millisecond (the backoff *)
(*    curve 1000 * 1.6^k has one decimal for k <= 4 and is capped above);  *)
(*  - an absent (null / undefined) JSON field is NULL.                     *)
(***************************************************************************)
EXTENDS Integers, Sequences, FiniteSets, TLC

VARIABLES
  \* ---- zFetchJSON (one call) ----
  zPc,        \* "idle" | "running" | "returned" | "thrown"
  zLabel,     \* the label argument
  zAttempt,   \* the loop variable attempt
  zRequests,  \* number of fetch() calls made by this call
  zResp,      \* the last response received
  zWait,      \* the last delay slept, in tenths of a millisecond
  zResult,    \* the value returned (parsed body)
  zErr,       \* the error thrown
  \* ---- fetchOutstandingForOrg (one run) ----
  oPc,        \* position in the function
  contacts, openInvoices, creditnotes, payments, advances,  \* fetched lists
  ci,         \* index of the next contact of the for-loop
  rows,       \* rows: customer name -> OutstandingCustomerRow
  invoicesByCustomer,
  cur,        \* locals of the loop iterations done so far (one record per contact)
  oErr,       \* the error thrown
  caught,     \* number of errors the try/catch blocks around the advances caught
  \* ---- fetchSaleOrderStatusMTM (one run) ----
  sPc, soList, soFull, invList, invFull, out, sErr,
  \* ---- SaleOrderStatusScreen (one mounted screen) ----
  uMounted,    \* the component is mounted
  uCustomers,  \* customers.length of the current render
  uCustomerId, \* the customer filter of the current render (NULL: all)
  uEffectDue,  \* the effect on [load, customerId, fromISO, toISO] is due to run
  uLoads,      \* the invocations of load(), each with its position
  uData,       \* the filter whose result setData stored last ("none": no result yet)
  \* ---- createSalesOrderMTM (one invocation) ----
  cPc, cInput, cLookups, cContact, cPosts, cResult, cErr,
  \* ---- the operations that step over failed requests (one run) ----
  eOp, ePc, eTodo, eGot, eBad, eLogged, eErr,
  \* ---- pickRate (one call) ----
  pPc, pRow, pList, pManual, pOut,
  \* ---- the clock of the app session and one aging of an invoice ----
  clock,       \* the current time, in hours
  tInv,        \* the invoice aged by the last run
  tRunAt,      \* the time at which that run started
  tAge,        \* the age the run gave the invoice
  \* ---- NewSaleOrderScreen (one mounted screen) ----
  nForm,       \* the form: "empty", or "filled" (customer, sales person, a quantity)
  nFormId,     \* the number of forms filled so far
  nLoading,    \* the loading flag of the screen
  nRuns,       \* the invocations of onCreate, each with its form and position
  nCreated,    \* per form, the sales orders the server created from it
  \* ---- syncBoutiqueImagesMTM (one run) ----
  gPc,         \* the position of the run
  gServer,     \* the active items the server lists, with their documents
  gTodo,       \* the listed items not yet processed
  gLocal,      \* the image files in the local folders
  gKnown,      \* the documents the manifest knows
  gActive,     \* activeSet
  gDeleted,    \* the files the cleanup deleted
  gDownloaded, \* totalDownloaded
  gErr,        \* the error thrown
  \* ---- the callers of fetchOutstandingForOrg ----
  kPc,         \* the position of onRefreshAll
  kRet,        \* the value fetchOutstandingForOrg returned to onRefreshAll
  kRows,       \* rowsByCustomer of the Outstanding screen
  kSelected,   \* selectedCustomer ("": none)
  kXRet,       \* the value returned to buildAndShareOutstandingWorkbook
  kSheet,      \* the rows it gave sheetFromRows for that firm
  \* ---- FormScreen: the firm and its customer list ----
  fOrg,        \* selectedOrg
  fList,       \* customers: the firm the list was read for, its source and size
  fLoadingCust, \* loadingCust
  fFetch,      \* the firm of the fetchCustomers in flight ("none": none)
  fReads,      \* the firms whose cache read (the effect on cacheKey) is pending
  fCache,      \* per firm, the size of the cached list (NULL: nothing cached)
  \* ---- the stored history (AsyncStorage key anvaya_history_v1) ----
  hStore,      \* the list stored, newest first
  hPc,         \* the position of the pushHistory call in progress
  hItem,       \* the item it pushes (items are numbered in push order)
  hList,       \* the list getHistory() gave it
  hPushes      \* the pushHistory calls completed

zVars == <<zPc, zLabel, zAttempt, zRequests, zResp, zWait, zResult, zErr>>
oVars == <<oPc, contacts, openInvoices, creditnotes, payments, advances, ci, rows,
           invoicesByCustomer, cur, oErr, caught>>
sVars == <<sPc, soList, soFull, invList, invFull, out, sErr>>
uVars == <<uMounted, uCustomers, uCustomerId, uEffectDue, uLoads, uData>>
cVars == <<cPc, cInput, cLookups, cContact, cPosts, cResult, cErr>>
eVars == <<eOp, ePc, eTodo, eGot, eBad, eLogged, eErr>>
pVars == <<pPc, pRow, pList, pManual, pOut>>
tVars == <<clock, tInv, tRunAt, tAge>>
nVars == <<nForm, nFormId, nLoading, nRuns, nCreated>>
hVars == <<hStore, hPc, hItem, hList, hPushes>>
fVars == <<fOrg, fList, fLoadingCust, fFetch, fReads, fCache>>
kVars == <<kPc, kRet, kRows, kSelected, kXRet, kSheet>>
gVars == <<gPc, gServer, gTodo, gLocal, gKnown, gActive, gDeleted, gDownloaded, gErr>>
\* The fetch functions of zoho.ts modelled first, and the rest.
libVars == <<zVars, oVars, sVars>>
aVars == <<uVars, cVars, eVars, pVars, tVars>>
\* The screens and the stores modelled after them.
bVars == <<nVars, gVars, kVars, fVars, hVars>>
vars == <<libVars, aVars, bVars>>

NULL == -1

Min(a, b) == IF a <= b THEN a ELSE b
Max(a, b) == IF a >= b THEN a ELSE b

\* The sequences over S of length at most n.
RECURSIVE SeqsUpTo(_, _)
SeqsUpTo(S, n) ==
  IF n = 0 THEN { <<>> }
  ELSE SeqsUpTo(S, n - 1) \cup
       { Append(q, x) : q \in { r \in SeqsUpTo(S, n - 1) : Len(r) = n - 1 }, x \in S }

RECURSIVE SumSeq(_)
SumSeq(s) == IF s = <<>> THEN 0 ELSE s[1] + SumSeq(Tail(s))

(***************************************************************************)
(* HTTP responses                                                          *)
(***************************************************************************)
\* Response.ok: status in the range 200-299.
RespOk(status) == 200 <= status /\ status <= 299

\* The Retry-After header as fetch gives it: absent (headers.get gives null),
\* a number of seconds, or an HTTP date.
RetryAfterHeaders ==
  { [kind |-> "absent", secs |-> 0], [kind |-> "date", secs |-> 0],
    [kind |-> "secs", secs |-> 0],   [kind |-> "secs", secs |-> 2],
    [kind |-> "secs", secs |-> 30] }

\* Number(resp.headers.get('Retry-After')) || 0 : Number(null) is 0, Number of a
\* date string is NaN, and NaN || 0 is 0.
RetryAfterOf(resp) == IF resp.retryAfter.kind = "secs" THEN resp.retryAfter.secs ELSE 0

\* Response bodies (text): a short one, and one longer than the 140 characters
\* an error message keeps.
ShortBody == <<"e", "r", "r">>
LongBody == [i \in 1..150 |-> "x"]

\* An error response of the server.
ErrResp(status, h, body) == [status |-> status, retryAfter |-> h, body |-> body]
\* A success response whose parsed JSON body is json.
OkResp(json) == [status |-> 200, retryAfter |-> [kind |-> "absent", secs |-> 0], body |-> json]

NoResp == [status |-> 0, retryAfter |-> [kind |-> "absent", secs |-> 0], body |-> <<>>]
NoErr == [kind |-> "none", label |-> "", status |-> 0, body |-> <<>>]

(***************************************************************************)
(* Rate-limit helpers: zFetchJSON                        zoho.ts 61-98     *)
(***************************************************************************)
ZB_RATE_DELAY_MS == 180
ZB_MAX_RETRIES == 6
BackoffCapMs == 10000
ErrBodyChars == 140

\* status === 429 || status === 502 || status === 503
RetryOn500(status) == status \in {429, 500, 502, 503}
IsRetryStatus(status) == status \in {429, 502, 503}

\* Math.min(10000, 1000 * Math.pow(1.6, k)), in tenths of a ms.  The curve is
\* increasing, so capping at every factor gives the same value as capping at
\* the end (and keeps the numbers small); 1000 * 1.6^k has one decimal up to
\* k = 4 (1600, 2560, 4096, 6553.6) and is above the cap from k = 5 on.
RECURSIVE Curve(_)
Curve(k) == IF k = 0 THEN 1000 * 10 ELSE Min(BackoffCapMs * 10, (Curve(k - 1) * 16) \div 10)
Backoff(attempt) == Curve(attempt + 1)

\* const wait = retryAfter > 0 ? retryAfter * 1000 : backoff
WaitFor(resp, attempt) ==
  IF RetryAfterOf(resp) > 0 THEN RetryAfterOf(resp) * 1000 * 10 ELSE Backoff(attempt)

\* body.slice(0, 140)
SliceNone(body) == body
Slice140(body) == SubSeq(body, 1, Min(Len(body), ErrBodyChars))

\* new Error(`${label} ${status} - ${body.slice(0, 140)}`)
StatusError(label, resp) ==
  [kind |-> "status", label |-> label, status |-> resp.status, body |-> Slice140(resp.body)]
\* new Error(`${label} - too many retries`)
TooManyRetries(label) ==
  [kind |-> "too many retries", label |-> label, status |-> 0, body |-> <<>>]

\* One iteration of the for-loop on the response resp: what the iteration ends
\* with.  "return": resp.ok; "retry": sleep(wait) and continue; "throw".
ZStep(label, attempt, resp) ==
  IF RespOk(resp.status)
    THEN [kind |-> "return", wait |-> 0, result |-> resp.body, err |-> NoErr]
  ELSE IF IsRetryStatus(resp.status)
    THEN [kind |-> "retry", wait |-> WaitFor(resp, attempt), result |-> NULL, err |-> NoErr]
  ELSE [kind |-> "throw", wait |-> 0, result |-> NULL, err |-> StatusError(label, resp)]

\* The whole call, on the responses the server gives to its successive
\* requests (script): the loop runs while attempt <= ZB_MAX_RETRIES.
RECURSIVE ZRun(_, _, _)
ZRun(label, script, attempt) ==
  IF attempt > ZB_MAX_RETRIES \/ script = <<>>
    THEN [kind |-> "throw", wait |-> 0, result |-> NULL, err |-> TooManyRetries(label)]
    ELSE LET s == ZStep(label, attempt, Head(script))
         IN IF s.kind = "retry" THEN ZRun(label, Tail(script), attempt + 1) ELSE s
zFetchJSON(label, script) == ZRun(label, script, 0)

\* What the server may answer to a detail request.
ZStatuses == {200, 404, 429, 500, 502, 503}
ZResponses ==
  { OkResp(j) : j \in {1, 2} } \cup
  { ErrResp(st, h, b) : st \in ZStatuses \ {200}, h \in RetryAfterHeaders,
                        b \in {ShortBody, LongBody} }
ZLabels == {"SO detail", "Invoice detail"}

zInit ==
  /\ zPc = "idle" /\ zLabel = "" /\ zAttempt = 0 /\ zRequests = 0
  /\ zResp = NoResp /\ zWait = 0 /\ zResult = NULL /\ zErr = NoErr

\* A caller invokes zFetchJSON(url, headers, label, log).
ZCall ==
  /\ zPc = "idle"
  /\ \E l \in ZLabels : zLabel' = l
  /\ zPc' = "running"
  /\ UNCHANGED <<zAttempt, zRequests, zResp, zWait, zResult, zErr>>
  /\ UNCHANGED <<oVars, sVars, aVars, bVars>>

\* One iteration of the loop: fetch, then return, sleep and continue, or throw.
ZAttempt ==
  /\ zPc = "running"
  /\ zAttempt <= ZB_MAX_RETRIES
  /\ \E resp \in ZResponses :
       LET s == ZStep(zLabel, zAttempt, resp) IN
       /\ zResp' = resp
       /\ zRequests' = zRequests + 1
       /\ zPc' = CASE s.kind = "return" -> "returned"
                   [] s.kind = "retry" -> "running"
                   [] OTHER -> "thrown"
       /\ zAttempt' = IF s.kind = "retry" THEN zAttempt + 1 ELSE zAttempt
       /\ zWait' = IF s.kind = "retry" THEN s.wait ELSE zWait
       /\ zResult' = s.result
       /\ zErr' = s.err
  /\ UNCHANGED zLabel
  /\ UNCHANGED <<oVars, sVars, aVars, bVars>>

\* The loop condition fails: throw new Error(`${label} - too many retries`).
ZGiveUp ==
  /\ zPc = "running"
  /\ zAttempt > ZB_MAX_RETRIES
  /\ zPc' = "thrown"
  /\ zErr' = TooManyRetries(zLabel)
  /\ UNCHANGED <<zLabel, zAttempt, zRequests, zResp, zWait, zResult>>
  /\ UNCHANGED <<oVars, sVars, aVars, bVars>>


(***************************************************************************)
(* Outstanding (per customer): fetchOutstandingForOrg    zoho.ts 708-995   *)
(***************************************************************************)
MaxDocs == 3        \* invoices, credit notes, payments and advances on the server

HoursPerDay == 24
\* const TODAY = new Date(): day 1000 at 13:00, in hours since the epoch.
TODAY == 24013
\* The day number of the date n days before today.
DaysAgo(n) == 1000 - n

BUCKETS ==
  << <<0, 15>>, <<16, 30>>, <<31, 45>>, <<46, 60>>, <<61, 90>>, <<91, 120>>,
     <<121, 150>>, <<151, 180>>, <<181, 365>>, <<366, 730>>, <<731, 1000000000>> >>
NBuckets == Len(BUCKETS)

\* Number(x), 0 when not finite (an absent field gives NaN or 0).
safeNum(x) == IF x = NULL THEN 0 ELSE x

\* parseISO: null for a missing or unparseable date, else the instant (UTC
\* midnight of the day), in hours.
parseISO(d) == IF d = NULL \/ d = 0 THEN NULL ELSE d * HoursPerDay

\* Math.floor((a.getTime() - b.getTime()) / (24 * 3600 * 1000))
daysBetweenHours(a, b) == a - b
daysBetween(a, b) == (a - b) \div HoursPerDay

\* The first bucket whose range holds days, else the last one.
RECURSIVE BucketFrom(_, _)
BucketFrom(days, i) ==
  IF i > NBuckets THEN NBuckets
  ELSE IF BUCKETS[i][1] <= days /\ days <= BUCKETS[i][2] THEN i
  ELSE BucketFrom(days, i + 1)
RECURSIVE BucketFromStrict(_, _)
BucketFromStrict(days, i) ==
  IF i > NBuckets THEN NBuckets
  ELSE IF BUCKETS[i][1] < days /\ days <= BUCKETS[i][2] THEN i
  ELSE BucketFromStrict(days, i + 1)
bucketIndexStrict(days) == BucketFromStrict(days, 1)
bucketIndex(days) == BucketFrom(days, 1)

\* The first present of unused_amount, unapplied_amount, unused_balance,
\* balance; else max(0, amount - applied_amount).
normalizeUnusedBalanceFirst(d) ==
  IF d.balance # NULL THEN safeNum(d.balance)
  ELSE IF d.unused_amount # NULL THEN safeNum(d.unused_amount)
  ELSE IF d.unapplied_amount # NULL THEN safeNum(d.unapplied_amount)
  ELSE IF d.unused_balance # NULL THEN safeNum(d.unused_balance)
  ELSE Max(0, safeNum(d.amount) - safeNum(d.applied_amount))
normalizeUnused(d) ==
  IF d.unused_amount # NULL THEN safeNum(d.unused_amount)
  ELSE IF d.unapplied_amount # NULL THEN safeNum(d.unapplied_amount)
  ELSE IF d.unused_balance # NULL THEN safeNum(d.unused_balance)
  ELSE IF d.balance # NULL THEN safeNum(d.balance)
  ELSE Max(0, safeNum(d.amount) - safeNum(d.applied_amount))

\* Math.round((x + Number.EPSILON) * 100) / 100 on mills: Math.round rounds a
\* half towards +infinity, which is floor(x * 100 + 1/2).
round2Down(x) == (x \div 10) * 10
round2(x) == ((x + 5) \div 10) * 10

\* ---- what the server holds ----
Contact(id, name) == [contact_id |-> id, contact_name |-> name]
\* No contact, one, or two of the same or of different names.
ContactLists ==
  { <<>>, <<Contact(1, "A")>>, <<Contact(1, "A"), Contact(2, "B")>>,
    <<Contact(1, "A"), Contact(2, "A")>> }

\* An open invoice: inv.customer_id || inv.contact_id, inv.date, the total and
\* the balance under the first of their field names that is present.
Invoice(cid, date, total, balance) ==
  [customer_id |-> cid, date |-> date, total |-> total, balance |-> balance]
InvoiceDocs ==
  { Invoice(1, DaysAgo(20), 1000000, 1000000),
    Invoice(1, DaysAgo(400), 1000000, 500000), Invoice(1, DaysAgo(800), 1000000, 6),
    Invoice(1, 0, 1000000, 1000000), Invoice(1, DaysAgo(-3), 1000000, 6),
    Invoice(1, DaysAgo(16), 1000000, 0),
    Invoice(2, DaysAgo(20), 1000000, 1000000), Invoice(2, DaysAgo(400), 500000, NULL),
    Invoice(NULL, DaysAgo(20), 1000000, 6) }

\* An open credit note: cn.remaining_credits ?? cn.balance.
CreditNote(cid, rem, bal) == [customer_id |-> cid, remaining_credits |-> rem, balance |-> bal]
CreditNoteDocs ==
  { CreditNote(1, 4, NULL), CreditNote(1, NULL, 500000) }

\* A customer payment.
Payment(cid, date, amount, unused) ==
  [customer_id |-> cid, date |-> date, amount |-> amount, unused_amount |-> unused]
PaymentDocs ==
  { Payment(1, DaysAgo(5), 500000, 500000), Payment(1, DaysAgo(20), 1000000, 0),
    Payment(1, DaysAgo(400), 6, 4),
    Payment(1, 0, 500000, 500000), Payment(1, DaysAgo(-3), 500000, 500000) }

\* An advance payment (or retainer invoice).
Advance(cid, unused, unapplied, ubal, bal, amount, applied) ==
  [customer_id |-> cid, unused_amount |-> unused, unapplied_amount |-> unapplied,
   unused_balance |-> ubal, balance |-> bal, amount |-> amount, applied_amount |-> applied]
AdvanceDocs ==
  { Advance(1, 4, NULL, NULL, 1000000, 1000000, 0),
    Advance(1, NULL, NULL, NULL, NULL, 1000000, 500000) }

\* What the fallback endpoint (retainerinvoices) holds: a retainer invoice
\* gives its unused part under balance.
RetainerDocs == { Advance(1, NULL, NULL, NULL, 500000, 1000000, 500000) }

\* paged(): all pages of a resource, or an error.  A 404 raises Error('404'),
\* any other non-success status Error(`${baseUrl} ${r.status}`).
PagedErrorBare(baseUrl, status) ==
  [kind |-> "status", label |-> "", status |-> status, body |-> <<>>]
PagedError(baseUrl, status) ==
  [kind |-> "status", label |-> IF status = 404 THEN "" ELSE baseUrl,
   status |-> status, body |-> <<>>]
PagedFailures == {404, 500}

DocsSoFar == Len(openInvoices) + Len(creditnotes) + Len(payments) + Len(advances)
Pages(docs) == SeqsUpTo(docs, MaxDocs - DocsSoFar)

\* ---- the per-customer indexes (invByC, cnByC, payByC, advByC) ----
OfCustomer(list, cid) == SelectSeq(list, LAMBDA d : d.customer_id # NULL /\ d.customer_id = cid)

\* cnByC[cid]: the sum of safeNum(cn.remaining_credits ?? cn.balance)
RECURSIVE CnSum(_)
CnSum(cns) ==
  IF cns = <<>> THEN 0
  ELSE safeNum(IF Head(cns).remaining_credits # NULL THEN Head(cns).remaining_credits
               ELSE Head(cns).balance) + CnSum(Tail(cns))

\* pays.reduce((s, p) => s + safeNum(p.unused_amount), 0)
RECURSIVE UnusedPay(_)
UnusedPay(pays) ==
  IF pays = <<>> THEN 0 ELSE safeNum(Head(pays).unused_amount) + UnusedPay(Tail(pays))
\* advs.reduce((s, a) => s + normalizeUnused(a), 0)
RECURSIVE UnusedAdv(_)
UnusedAdv(advs) ==
  IF advs = <<>> THEN 0 ELSE normalizeUnused(Head(advs)) + UnusedAdv(Tail(advs))

\* The payment windows: the amounts of the payments dated lo..hi days ago.
RECURSIVE PayWindowAny(_, _, _)
PayWindowAny(pays, lo, hi) ==
  IF pays = <<>> THEN 0
  ELSE safeNum(Head(pays).amount) + PayWindowAny(Tail(pays), lo, hi)
RECURSIVE PayWindow(_, _, _)
PayWindow(pays, lo, hi) ==
  IF pays = <<>> THEN 0
  ELSE LET dt == parseISO(Head(pays).date)
           days == daysBetween(TODAY, dt)
       IN (IF dt # NULL /\ lo <= days /\ days <= hi THEN safeNum(Head(pays).amount) ELSE 0)
          + PayWindow(Tail(pays), lo, hi)

\* safeNum(inv.balance ?? ... ?? totalAmount)
RawBalance(inv) == safeNum(IF inv.balance # NULL THEN inv.balance ELSE safeNum(inv.total))
\* const age = dt ? Math.max(0, daysBetween(TODAY, dt)) : 0
Age(inv) ==
  IF parseISO(inv.date) # NULL THEN Max(0, daysBetween(TODAY, parseISO(inv.date))) ELSE 0

\* The loop over invs: buckets[bucketIndex(age)] += rawBalance when the balance
\* is positive (bucketIndex(0) when the date does not parse).
RECURSIVE BucketsDropUndated(_, _)
BucketsDropUndated(acc, invs) ==
  IF invs = <<>> THEN acc
  ELSE LET inv == Head(invs)
       IN BucketsDropUndated(
            IF RawBalance(inv) > 0 /\ parseISO(inv.date) # NULL
              THEN [acc EXCEPT ![bucketIndex(Age(inv))] = @ + RawBalance(inv)] ELSE acc,
            Tail(invs))
RECURSIVE Buckets(_, _)
Buckets(acc, invs) ==
  IF invs = <<>> THEN acc
  ELSE LET inv == Head(invs)
           k == IF parseISO(inv.date) # NULL THEN bucketIndex(Age(inv)) ELSE bucketIndex(0)
       IN Buckets(IF RawBalance(inv) > 0 THEN [acc EXCEPT ![k] = @ + RawBalance(inv)] ELSE acc,
                  Tail(invs))

InvoiceRow(inv) ==
  [invoiceDate |-> inv.date, total |-> round2(safeNum(inv.total)),
   balance |-> round2(RawBalance(inv)), age |-> Age(inv)]
\* a.invoiceDate.localeCompare(b.invoiceDate): stable sort by date string.
RECURSIVE InsertRow(_, _)
InsertRow(sorted, r) ==
  IF sorted = <<>> THEN <<r>>
  ELSE IF Head(sorted).invoiceDate <= r.invoiceDate
    THEN <<Head(sorted)>> \o InsertRow(Tail(sorted), r)
  ELSE <<r>> \o sorted
RECURSIVE SortRows(_, _)
SortRows(acc, rs) == IF rs = <<>> THEN acc ELSE SortRows(InsertRow(acc, Head(rs)), Tail(rs))
UnpaidInvoices(invs) ==
  SortRows(<<>>, SelectSeq([i \in 1..Len(invs) |-> InvoiceRow(invs[i])],
                           LAMBDA r : r.balance > 0))

\* buckets[idx_181] + buckets[idx_366] + buckets[idx_730], rounded
Above180Shifted(b) == round2(b[8] + b[9] + b[10])
Above180(b) == round2(b[9] + b[10] + b[11])

\* const balance = round2(totalOut - (cnSum + totalUnused))
BalanceNoUnused(totalOut, cnSum, totalUnused) == round2(totalOut - cnSum)
Balance(totalOut, cnSum, totalUnused) == round2(totalOut - (cnSum + totalUnused))

\* if ((totalOut + cnSum + totalUnused + p0_15 + p16_90) === 0) continue
PruneSettled(l) == Balance(l.totalOut, l.cnSum, l.totalUnused) = 0
PruneNoWindows(l) == (l.totalOut + l.cnSum + l.totalUnused) = 0
Prune(l) == (l.totalOut + l.cnSum + l.totalUnused + l.p0_15 + l.p16_90) = 0

\* The locals of the loop body for contact c.
Locals(c) ==
  LET cid == c.contact_id
      invs == OfCustomer(openInvoices, cid)
      pays == OfCustomer(payments, cid)
      advs == OfCustomer(advances, cid)
      buckets == Buckets([k \in 1..NBuckets |-> 0], invs)
  IN [cid |-> cid, custName |-> c.contact_name,
      cnSum |-> safeNum(CnSum(OfCustomer(creditnotes, cid))),
      totalUnused |-> UnusedPay(pays) + UnusedAdv(advs),
      p0_15 |-> PayWindow(pays, 0, 15), p16_90 |-> PayWindow(pays, 16, 90),
      buckets |-> buckets, totalOut |-> SumSeq(buckets),
      unpaidInvoices |-> UnpaidInvoices(invs)]

\* The row of the contact whose locals are l; iter is not a field of the
\* code's row: it tells which iteration of the loop wrote the row.
Row(l, iter) ==
  [customerName |-> l.custName,
   bucket |-> [k \in 1..NBuckets |-> round2(l.buckets[k])],
   Above_180 |-> Above180(l.buckets),
   Total |-> round2(l.totalOut),
   CN |-> round2(l.cnSum),
   Payment |-> round2(l.totalUnused),
   Balance |-> Balance(l.totalOut, l.cnSum, l.totalUnused),
   payments_0_15 |-> round2(l.p0_15),
   payments_16_90 |-> round2(l.p16_90),
   iter |-> iter]

\* m[k] = v
MapSet(m, k, v) == [x \in DOMAIN m \cup {k} |-> IF x = k THEN v ELSE m[x]]

\* ---- the steps of one run ----
OFetchContacts ==
  /\ oPc = "start"
  /\ \/ \E st \in PagedFailures :
          /\ oPc' = "error" /\ oErr' = PagedError("contacts", st) /\ UNCHANGED contacts
     \/ \E l \in ContactLists :
          /\ contacts' = l /\ oPc' = "invoices" /\ UNCHANGED oErr
  /\ UNCHANGED <<openInvoices, creditnotes, payments, advances, ci, rows,
                 invoicesByCustomer, cur>>
  /\ UNCHANGED caught
  /\ UNCHANGED <<zVars, sVars, aVars, bVars>>

\* for (const st of OPEN_STATUSES): the draft invoices, then the unpaid ones.
OFetchInvoices ==
  /\ oPc \in {"invoices", "invoices2"}
  /\ \/ \E st \in PagedFailures :
          /\ oPc' = "error" /\ oErr' = PagedError("invoices", st) /\ UNCHANGED openInvoices
     \/ \E part \in Pages(InvoiceDocs) :
          /\ openInvoices' = openInvoices \o part
          /\ oPc' = IF oPc = "invoices" THEN "invoices2" ELSE "creditnotes"
          /\ UNCHANGED oErr
  /\ UNCHANGED <<contacts, creditnotes, payments, advances, ci, rows,
                 invoicesByCustomer, cur>>
  /\ UNCHANGED caught
  /\ UNCHANGED <<zVars, sVars, aVars, bVars>>

OFetchCreditNotes ==
  /\ oPc = "creditnotes"
  /\ \/ \E st \in PagedFailures :
          /\ oPc' = "error" /\ oErr' = PagedError("creditnotes", st) /\ UNCHANGED creditnotes
     \/ \E l \in Pages(CreditNoteDocs) :
          /\ creditnotes' = l /\ oPc' = "payments" /\ UNCHANGED oErr
  /\ UNCHANGED <<contacts, openInvoices, payments, advances, ci, rows,
                 invoicesByCustomer, cur>>
  /\ UNCHANGED caught
  /\ UNCHANGED <<zVars, sVars, aVars, bVars>>

OFetchPayments ==
  /\ oPc = "payments"
  /\ \/ \E st \in PagedFailures :
          /\ oPc' = "error" /\ oErr' = PagedError("customerpayments", st) /\ UNCHANGED payments
     \/ \E l \in Pages(PaymentDocs) :
          /\ payments' = l /\ oPc' = "advances" /\ UNCHANGED oErr
  /\ UNCHANGED <<contacts, openInvoices, creditnotes, advances, ci, rows,
                 invoicesByCustomer, cur>>
  /\ UNCHANGED caught
  /\ UNCHANGED <<zVars, sVars, aVars, bVars>>

OFetchAdvancesFatal ==
  /\ oPc = "advances"
  /\ \/ \E st \in PagedFailures :
          /\ oPc' = "error" /\ oErr' = PagedError("customeradvancepayments", st)
          /\ caught' = caught + 1 /\ UNCHANGED advances
     \/ \E l \in Pages(AdvanceDocs) :
          advances' = l /\ oPc' = "loop" /\ UNCHANGED <<caught, oErr>>
  /\ UNCHANGED <<contacts, openInvoices, creditnotes, payments, ci, rows,
                 invoicesByCustomer, cur>>
  /\ UNCHANGED <<zVars, sVars, aVars, bVars>>
\* try { advances = await paged(customeradvancepayments) } catch { ... }
OFetchAdvances ==
  /\ oPc = "advances"
  /\ \/ \E st \in PagedFailures :
          oPc' = "retainer" /\ caught' = caught + 1 /\ UNCHANGED advances
     \/ \E l \in Pages(AdvanceDocs) : advances' = l /\ oPc' = "loop" /\ UNCHANGED caught
  /\ UNCHANGED <<contacts, openInvoices, creditnotes, payments, ci, rows,
                 invoicesByCustomer, cur, oErr>>
  /\ UNCHANGED <<zVars, sVars, aVars, bVars>>

\* try { advances = await paged(retainerinvoices) } catch { advances = [] }
OFetchRetainers ==
  /\ oPc = "retainer"
  /\ \/ \E st \in PagedFailures : advances' = <<>> /\ caught' = caught + 1
     \/ \E l \in Pages(RetainerDocs) : advances' = l /\ UNCHANGED caught
  /\ oPc' = "loop"
  /\ UNCHANGED <<contacts, openInvoices, creditnotes, payments, ci, rows,
                 invoicesByCustomer, cur, oErr>>
  /\ UNCHANGED <<zVars, sVars, aVars, bVars>>

\* One iteration of for (const c of contacts).
OProcessContact ==
  /\ oPc = "loop"
  /\ ci <= Len(contacts)
  /\ LET l == Locals(contacts[ci]) IN
     /\ invoicesByCustomer' = MapSet(invoicesByCustomer, l.custName, l.unpaidInvoices)
     /\ cur' = Append(cur, l)
     /\ rows' = IF Prune(l) THEN rows ELSE MapSet(rows, l.custName, Row(l, ci))
  /\ ci' = ci + 1
  /\ UNCHANGED <<oPc, contacts, openInvoices, creditnotes, payments, advances, oErr>>
  /\ UNCHANGED caught
  /\ UNCHANGED <<zVars, sVars, aVars, bVars>>

\* return { summary: rows, invoices: invoicesByCustomer }
OReturn ==
  /\ oPc = "loop"
  /\ ci > Len(contacts)
  /\ oPc' = "done"
  /\ UNCHANGED <<contacts, openInvoices, creditnotes, payments, advances, ci, rows,
                 invoicesByCustomer, cur, oErr>>
  /\ UNCHANGED caught
  /\ UNCHANGED <<zVars, sVars, aVars, bVars>>

(***************************************************************************)
(* Sale-order status (MTM): fetchSaleOrderStatusMTM      zoho.ts 1349-1481 *)
(***************************************************************************)
MaxInvLines == 2    \* line items over all the invoices fetched

\* ---- what the server holds ----
\* A sales-order line item; the id is under line_item_id, or under one of the
\* aliases the code also reads.
SOLine(id) ==
  [line_item_id |-> id, salesorder_item_id |-> NULL, salesorderlineitem_id |-> NULL,
   name |-> "item", quantity |-> 5]
SOLineAlias(id) ==
  [line_item_id |-> NULL, salesorder_item_id |-> id, salesorderlineitem_id |-> NULL,
   name |-> "item", quantity |-> 5]
\* Two sales orders: 1, with lines 11 and 12, and 2, with line 21 or no line.
SOIds == {1, 2}
SOLineLists(s) ==
  IF s = 1
    THEN { <<SOLine(11), SOLine(12)>>, <<SOLine(12), SOLine(11)>>, <<SOLineAlias(11)>> }
    ELSE { <<>>, <<SOLine(21)>> }
SODetails(s) == { [salesorder_id |-> s, line_items |-> l] : l \in SOLineLists(s) }

\* The list pages of /salesorders: none, the first, or both in either order.
SOLists ==
  { <<>>, <<[salesorder_id |-> 1]>>,
    <<[salesorder_id |-> 1], [salesorder_id |-> 2]>>,
    <<[salesorder_id |-> 2], [salesorder_id |-> 1]>> }
\* The list pages of /invoices: up to two invoices.
InvLists ==
  { <<>>, <<[invoice_id |-> 1]>>, <<[invoice_id |-> 1], [invoice_id |-> 2]>> }

\* An invoice line item: its link to a sales-order line is under one of four
\* field names, or absent.
InvLine(a, b, c, d, q) ==
  [salesorder_item_id |-> a, salesorder_line_item_id |-> b, salesorderitem_id |-> c,
   linked_salesorder_item_id |-> d, quantity |-> q]
InvLines ==
  { InvLine(NULL, NULL, NULL, NULL, 1),
    InvLine(11, NULL, NULL, NULL, 1), InvLine(11, NULL, NULL, NULL, 2),
    InvLine(21, NULL, NULL, NULL, 1),
    InvLine(NULL, NULL, NULL, 11, 2),
    InvLine(12, NULL, 11, 21, 1) }
\* Invoice dates: two days, and a missing date.
InvDates == {0, 1, 2}
InvDetails(i, room) ==
  { [invoice_id |-> i, date |-> d, line_items |-> l] :
      d \in InvDates, l \in SeqsUpTo(InvLines, room) }

\* ---- helpers ----
\* li.salesorder_item_id || li.salesorder_line_item_id || li.salesorderitem_id
\*   || li.linked_salesorder_item_id
InvSoItemId(li) ==
  IF li.salesorder_item_id # NULL THEN li.salesorder_item_id
  ELSE IF li.salesorder_line_item_id # NULL THEN li.salesorder_line_item_id
  ELSE IF li.salesorderitem_id # NULL THEN li.salesorderitem_id
  ELSE li.linked_salesorder_item_id

\* li.line_item_id || li.salesorder_item_id || li.salesorderlineitem_id
SoSoItemId(li) ==
  IF li.line_item_id # NULL THEN li.line_item_id
  ELSE IF li.salesorder_item_id # NULL THEN li.salesorder_item_id
  ELSE li.salesorderlineitem_id

\* const arr = eventsBySOItem.get(k) || []; arr.push(ev); eventsBySOItem.set(k, arr)
MapPush(m, k, ev) ==
  IF k \in DOMAIN m THEN [m EXCEPT ![k] = Append(@, ev)] ELSE m @@ (k :> <<ev>>)
\* eventsBySOItem.get(k) || []
MapGet(m, k) == IF k \in DOMAIN m THEN m[k] ELSE <<>>

\* The inner loop, over the line items of one invoice (from line j on).
RECURSIVE EventsOfInvoice(_, _, _)
EventsOfInvoice(m, inv, j) ==
  IF j > Len(inv.line_items) THEN m
  ELSE LET li == inv.line_items[j]
           ev == [invoice_id |-> inv.invoice_id, date |-> inv.date, qty |-> li.quantity]
       IN IF InvSoItemId(li) = NULL
            THEN EventsOfInvoice(m, inv, j + 1)
            ELSE EventsOfInvoice(MapPush(m, InvSoItemId(li), ev), inv, j + 1)

\* The outer loop, over invFull (from invoice i on): eventsBySOItem.
RECURSIVE EventsBySOItem(_, _, _)
EventsBySOItem(m, invs, i) ==
  IF i > Len(invs) THEN m
  ELSE EventsBySOItem(EventsOfInvoice(m, invs[i], 1), invs, i + 1)

\* (a, b) => (a.date || '').localeCompare(b.date || '') <= 0
DateLeq(a, b) == a.date <= b.date

\* Array.prototype.sort with that comparator: a stable sort (ECMAScript 2019),
\* here by insertion of each element after the elements not greater than it.
RECURSIVE InsertUnstable(_, _)
InsertUnstable(sorted, e) ==
  IF sorted = <<>> THEN <<e>>
  ELSE IF e.date <= Head(sorted).date THEN <<e>> \o sorted
  ELSE <<Head(sorted)>> \o InsertUnstable(Tail(sorted), e)
RECURSIVE InsertStable(_, _)
InsertStable(sorted, e) ==
  IF sorted = <<>> THEN <<e>>
  ELSE IF DateLeq(Head(sorted), e) THEN <<Head(sorted)>> \o InsertStable(Tail(sorted), e)
  ELSE <<e>> \o sorted
RECURSIVE SortFrom(_, _, _)
SortFrom(acc, evs, i) ==
  IF i > Len(evs) THEN acc ELSE SortFrom(InsertStable(acc, evs[i]), evs, i + 1)
SortEvents(evs) == SortFrom(<<>>, evs, 1)

\* evs.reduce((s, e) => s + (e.qty || 0), 0)
RECURSIVE QtySum(_)
QtySum(evs) == IF evs = <<>> THEN 0 ELSE Head(evs).qty + QtySum(Tail(evs))
QtyCount(evs) == Len(evs)
DispQty(evs) == QtySum(evs)

\* One line of the result, for the sales-order line li.
StatusLine(li, m) ==
  LET evs == MapGet(m, SoSoItemId(li)) IN
  [salesorder_item_id |-> SoSoItemId(li), item |-> li.name, quantity |-> li.quantity,
   dispQty |-> DispQty(evs), events |-> SortEvents(evs)]

StatusSO(so, m) ==
  [salesorder_id |-> so.salesorder_id,
   lines |-> [j \in 1..Len(so.line_items) |-> StatusLine(so.line_items[j], m)]]

\* out.push(...) for every so of soFull, in order.
RECURSIVE BuildReversed(_, _, _)
BuildReversed(acc, sos, m) ==
  IF sos = <<>> THEN acc ELSE BuildReversed(<<StatusSO(Head(sos), m)>> \o acc, Tail(sos), m)
RECURSIVE BuildOut(_, _, _)
BuildOut(acc, sos, m) ==
  IF sos = <<>> THEN acc ELSE BuildOut(Append(acc, StatusSO(Head(sos), m)), Tail(sos), m)

\* What the server may answer to the requests of one detail hydration: the
\* detail at once or after a retry, a terminal error, or 429 every time.
Throttled == ErrResp(429, [kind |-> "absent", secs |-> 0], ShortBody)
HydrationScripts(json) ==
  { <<OkResp(json)>>, <<Throttled, OkResp(json)>>,
    <<ErrResp(500, [kind |-> "absent", secs |-> 0], ShortBody)>>,
    [i \in 1..(ZB_MAX_RETRIES + 1) |-> Throttled] }

\* `Sales Orders ${r.status}`, `Invoices ${r.status}`
ListError(label, status) == [kind |-> "status", label |-> label, status |-> status, body |-> <<>>]
ListFailures == {401, 500}

InvLinesSoFar == SumSeq([i \in 1..Len(invFull) |-> Len(invFull[i].line_items)])

\* 1) the paginated list of sales orders; an empty list returns [] at once.
SListSOs ==
  /\ sPc = "start"
  /\ \/ \E st \in ListFailures :
          /\ sPc' = "error" /\ sErr' = ListError("Sales Orders", st)
          /\ UNCHANGED <<soList, out>>
     \/ \E l \in SOLists :
          /\ soList' = l
          /\ sPc' = IF l = <<>> THEN "done" ELSE "soHydrate"
          /\ out' = <<>>
          /\ UNCHANGED sErr
  /\ UNCHANGED <<soFull, invList, invFull>>
  /\ UNCHANGED <<zVars, oVars, aVars, bVars>>

\* 1b) one iteration of the hydration loop: zFetchJSON, push, sleep.
SHydrateSO ==
  /\ sPc = "soHydrate"
  /\ LET so == soList[Len(soFull) + 1] IN
     \E d \in SODetails(so.salesorder_id) :
     \E script \in HydrationScripts([salesorder |-> d]) :
       LET r == zFetchJSON("SO detail", script) IN
       IF r.kind = "return"
         THEN /\ soFull' = Append(soFull, r.result.salesorder)
              /\ sPc' = IF Len(soFull) + 1 = Len(soList) THEN "invList" ELSE "soHydrate"
              /\ UNCHANGED sErr
         ELSE /\ sPc' = "error" /\ sErr' = r.err
              /\ UNCHANGED soFull
  /\ UNCHANGED <<soList, invList, invFull, out>>
  /\ UNCHANGED <<zVars, oVars, aVars, bVars>>

\* 2) the paginated list of invoices.
SListInvoices ==
  /\ sPc = "invList"
  /\ \/ \E st \in ListFailures :
          /\ sPc' = "error" /\ sErr' = ListError("Invoices", st)
          /\ UNCHANGED invList
     \/ \E l \in InvLists :
          /\ invList' = l
          /\ sPc' = IF l = <<>> THEN "build" ELSE "invHydrate"
          /\ UNCHANGED sErr
  /\ UNCHANGED <<soList, soFull, invFull, out>>
  /\ UNCHANGED <<zVars, oVars, aVars, bVars>>

SHydrateInvoiceSkip ==
  /\ sPc = "invHydrate"
  /\ LET inv == invList[Len(invFull) + 1] IN
     \E d \in InvDetails(inv.invoice_id, MaxInvLines - InvLinesSoFar) :
     \E script \in HydrationScripts([invoice |-> d]) :
       LET r == zFetchJSON("Invoice detail", script) IN
       IF r.kind = "return"
         THEN /\ invFull' = Append(invFull, r.result.invoice)
              /\ sPc' = IF Len(invFull) + 1 = Len(invList) THEN "build" ELSE "invHydrate"
         ELSE /\ sPc' = "build"
              /\ UNCHANGED invFull
  /\ UNCHANGED <<soList, soFull, invList, out, sErr>>
  /\ UNCHANGED <<zVars, oVars, aVars, bVars>>
\* 2b) one iteration of the invoice hydration loop.
SHydrateInvoice ==
  /\ sPc = "invHydrate"
  /\ LET inv == invList[Len(invFull) + 1] IN
     \E d \in InvDetails(inv.invoice_id, MaxInvLines - InvLinesSoFar) :
     \E script \in HydrationScripts([invoice |-> d]) :
       LET r == zFetchJSON("Invoice detail", script) IN
       IF r.kind = "return"
         THEN /\ invFull' = Append(invFull, r.result.invoice)
              /\ sPc' = IF Len(invFull) + 1 = Len(invList) THEN "build" ELSE "invHydrate"
              /\ UNCHANGED sErr
         ELSE /\ sPc' = "error" /\ sErr' = r.err
              /\ UNCHANGED invFull
  /\ UNCHANGED <<soList, soFull, invList, out>>
  /\ UNCHANGED <<zVars, oVars, aVars, bVars>>

\* 3, 4) link the invoice lines to the sales-order lines, build the result
\* and return it.
SBuild ==
  /\ sPc = "build"
  /\ out' = BuildOut(<<>>, soFull, EventsBySOItem(<<>>, invFull, 1))
  /\ sPc' = "done"
  /\ UNCHANGED <<soList, soFull, invList, invFull, sErr>>
  /\ UNCHANGED <<zVars, oVars, aVars, bVars>>

(***************************************************************************)
(* Sale Order Status screen: load()       BoutiqueFolderScreen.tsx 342-403 *)
(***************************************************************************)
MaxLoads == 3       \* invocations of load() on one mounted screen
MaxRequests == 2    \* requests one run of fetchSaleOrderStatusMTM makes

\* The customer filter: all customers, or the customer picked.
CustomerFilters == {NULL, 1}
\* What listMTMCustomers may return: the number of customers.
CustomerCounts == {0, 1}

\* load() as the render that saw `sees` customers and the filter `cid` built
\* it: with no customer it first awaits listMTMCustomers(), else it goes to
\* fetchSaleOrderStatusMTM({ customerId: cid }), which makes `n` requests one
\* after the other.
NewLoad(sees, n, cid) ==
  IF sees = 0 THEN [pc |-> "customers", left |-> 0, cid |-> cid]
  ELSE [pc |-> "status", left |-> n, cid |-> cid]

\* The requests in flight: one for every load() that awaits a fetch.
Awaiting(l) == l.pc \in {"customers", "status"}
InFlight == Cardinality({ i \in 1..Len(uLoads) : Awaiting(uLoads[i]) })

\* The first render: the effects run after it.
UMount ==
  /\ ~uMounted
  /\ uMounted' = TRUE /\ uEffectDue' = TRUE
  /\ UNCHANGED <<uCustomers, uCustomerId, uLoads, uData>>
  /\ UNCHANGED <<libVars, cVars, eVars, pVars, tVars, bVars>>

\* useEffect(() => { load(); }, [load, customerId, fromISO, toISO])
URunEffect ==
  /\ uMounted /\ uEffectDue /\ Len(uLoads) < MaxLoads
  /\ \E n \in 1..MaxRequests :
       uLoads' = Append(uLoads, NewLoad(uCustomers, n, uCustomerId))
  /\ uEffectDue' = FALSE
  /\ UNCHANGED <<uMounted, uCustomers, uCustomerId, uData>>
  /\ UNCHANGED <<libVars, cVars, eVars, pVars, tVars, bVars>>

\* <IconButton icon="refresh" onPress={load} />
URefresh ==
  /\ uMounted /\ Len(uLoads) < MaxLoads
  /\ \E n \in 1..MaxRequests :
       uLoads' = Append(uLoads, NewLoad(uCustomers, n, uCustomerId))
  /\ UNCHANGED <<uMounted, uCustomers, uCustomerId, uEffectDue, uData>>
  /\ UNCHANGED <<libVars, cVars, eVars, pVars, tVars, bVars>>

\* setCustomerId(...): load depends on customerId, so the effect is due.  A
\* customer can be picked once the list has one.
UPickCustomer ==
  /\ uMounted
  /\ \E c \in CustomerFilters \ {uCustomerId} :
       /\ c # NULL => uCustomers > 0
       /\ uCustomerId' = c
  /\ uEffectDue' = TRUE
  /\ UNCHANGED <<uMounted, uCustomers, uLoads, uData>>
  /\ UNCHANGED <<libVars, cVars, eVars, pVars, tVars, bVars>>

\* await listMTMCustomers() settles: on an error the catch block ends the
\* load; else setCustomers(custs), which changes load when customers.length
\* changes, and the load goes on to fetchSaleOrderStatusMTM.
UCustomersArrive ==
  /\ \E i \in 1..Len(uLoads) :
       /\ uLoads[i].pc = "customers"
       /\ \/ /\ uLoads' = [uLoads EXCEPT ![i].pc = "failed"]
             /\ UNCHANGED <<uCustomers, uEffectDue>>
          \/ \E k \in CustomerCounts, n \in 1..MaxRequests :
               /\ uCustomers' = k
               /\ uEffectDue' = (uEffectDue \/ k # uCustomers)
               /\ uLoads' = [uLoads EXCEPT ![i].pc = "status", ![i].left = n]
  /\ UNCHANGED <<uMounted, uCustomerId, uData>>
  /\ UNCHANGED <<libVars, cVars, eVars, pVars, tVars, bVars>>

\* A request of fetchSaleOrderStatusMTM settles: an error ends the load; the
\* last response ends it with setData(result); else the next request is
\* sent, at once (list pages) or after sleep(ZB_RATE_DELAY_MS) (details).
UResponse ==
  /\ \E i \in 1..Len(uLoads) :
       /\ uLoads[i].pc = "status"
       /\ \/ uLoads' = [uLoads EXCEPT ![i].pc = "failed"] /\ UNCHANGED uData
          \/ /\ uLoads[i].left = 1
             /\ uLoads' = [uLoads EXCEPT ![i].pc = "done", ![i].left = 0]
             /\ uData' = uLoads[i].cid
          \/ /\ uLoads[i].left > 1
             /\ \E next \in {"status", "pause"} :
                  uLoads' = [uLoads EXCEPT ![i].pc = next, ![i].left = @ - 1]
             /\ UNCHANGED uData
  /\ UNCHANGED <<uMounted, uCustomers, uCustomerId, uEffectDue>>
  /\ UNCHANGED <<libVars, cVars, eVars, pVars, tVars, bVars>>

\* sleep(ZB_RATE_DELAY_MS) is over: the next detail request is sent.
UResume ==
  /\ \E i \in 1..Len(uLoads) :
       /\ uLoads[i].pc = "pause"
       /\ uLoads' = [uLoads EXCEPT ![i].pc = "status"]
  /\ UNCHANGED <<uMounted, uCustomers, uCustomerId, uEffectDue, uData>>
  /\ UNCHANGED <<libVars, cVars, eVars, pVars, tVars, bVars>>

uInit ==
  /\ uMounted = FALSE /\ uCustomers = 0 /\ uCustomerId = NULL
  /\ uEffectDue = FALSE /\ uLoads = <<>> /\ uData = "none"

(***************************************************************************)
(* Sales-order creation: createSalesOrderMTM             zoho.ts 1068-1140 *)
(***************************************************************************)
\* A line of the input: its item_id (absent, with digits, or without any
\* digit), whether it has a description, and its quantity.
SOInputLine(id, desc, qty) == [item_id |-> id, description |-> desc, quantity |-> qty]
SOInputLines ==
  { <<>>,
    <<SOInputLine("digits", FALSE, 2)>>, <<SOInputLine("digits", FALSE, 0)>>,
    <<SOInputLine("nodigits", FALSE, 2)>>,
    <<SOInputLine("none", TRUE, 2)>>, <<SOInputLine("none", FALSE, 2)>>,
    <<SOInputLine("digits", FALSE, 0), SOInputLine("none", TRUE, 2)>> }
\* input: customer_id (NULL: absent or blank), customer_name ("": absent or
\* blank) and the lines.
SOInputs ==
  { [customer_id |-> c, customer_name |-> n, line_items |-> l] :
      c \in {NULL, 7}, n \in {"", "Acme"}, l \in SOInputLines }

\* The line sent: item_id is sanitizeItemId(raw) (the digits of raw) when raw
\* is truthy, else the line goes by name and description.
SentLine(li) ==
  IF li.item_id # "none"
    THEN [item_id |-> (li.item_id = "digits"), description |-> FALSE, quantity |-> li.quantity]
    ELSE [item_id |-> FALSE, description |-> li.description, quantity |-> li.quantity]
HasValidAnyQuantity(lines) ==
  \E i \in 1..Len(lines) :
    LET l == SentLine(lines[i]) IN l.item_id \/ l.description
\* line_items.some(l => (l.item_id && l.quantity > 0) || (l.description && l.quantity > 0))
HasValid(lines) ==
  \E i \in 1..Len(lines) :
    LET l == SentLine(lines[i]) IN
    (l.item_id /\ l.quantity > 0) \/ (l.description /\ l.quantity > 0)

CreateError(kind, status) == [kind |-> kind, status |-> status]
NoCreateError == CreateError("none", 0)

\* The answers to the customer lookup: an error status, no contact, a contact
\* (cContact keeps the answer; "none" while no lookup was made).
LookupAnswers == {"failed", "empty", "found"}
\* The answers to the POST: the status, and the code of the JSON body.
PostAnswers ==
  { [status |-> 200, code |-> 0], [status |-> 201, code |-> 0], [status |-> 200, code |-> 5],
    [status |-> 400, code |-> 5], [status |-> 429, code |-> 0], [status |-> 500, code |-> 0] }

\* A caller invokes createSalesOrderMTM(input).
CCall ==
  /\ cPc = "idle"
  /\ \E in \in SOInputs : cInput' = in
  /\ cPc' = "called"
  /\ UNCHANGED <<cLookups, cContact, cPosts, cResult, cErr>>
  /\ UNCHANGED <<libVars, uVars, eVars, pVars, tVars, bVars>>

\* From the call to the POST: resolve customer_id (by a lookup when only the
\* name is given), map the lines, check them, and send the POST.
CPrepare ==
  /\ cPc = "called"
  /\ \E ans \in LookupAnswers :
       LET needsLookup == cInput.customer_id = NULL /\ cInput.customer_name # ""
           failure ==
             IF cInput.customer_id = NULL /\ cInput.customer_name = ""
               THEN CreateError("customer_id or customer_name is required", 0)
             ELSE IF needsLookup /\ ans = "failed"
               THEN CreateError("Customer lookup failed", 500)
             ELSE IF needsLookup /\ ans = "empty"
               THEN CreateError("Customer not found", 0)
             ELSE IF ~HasValid(cInput.line_items)
               THEN CreateError("No valid line items to create SO", 0)
             ELSE NoCreateError
       IN /\ cLookups' = IF needsLookup THEN cLookups + 1 ELSE cLookups
          /\ cContact' = IF needsLookup THEN ans ELSE cContact
          /\ cErr' = failure
          /\ cPc' = IF failure = NoCreateError THEN "posting" ELSE "thrown"
          /\ cPosts' = IF failure = NoCreateError THEN cPosts + 1 ELSE cPosts
  /\ UNCHANGED <<cInput, cResult>>
  /\ UNCHANGED <<libVars, uVars, eVars, pVars, tVars, bVars>>

\* The response to the POST: !r.ok and a non-zero code throw, else the
\* sales order is returned.
CRespondRetry ==
  /\ cPc = "posting"
  /\ \E a \in PostAnswers :
       IF RespOk(a.status) /\ a.code = 0
         THEN cResult' = 1 /\ cPc' = "returned" /\ UNCHANGED <<cErr, cPosts>>
       ELSE IF cPosts <= ZB_MAX_RETRIES
         THEN cPosts' = cPosts + 1 /\ UNCHANGED <<cPc, cErr, cResult>>
       ELSE /\ cErr' = CreateError("SO create failed", a.status)
            /\ cPc' = "thrown" /\ UNCHANGED <<cResult, cPosts>>
  /\ UNCHANGED <<cInput, cLookups, cContact>>
  /\ UNCHANGED <<libVars, uVars, eVars, pVars, tVars, bVars>>
CRespond ==
  /\ cPc = "posting"
  /\ \E a \in PostAnswers :
       /\ cErr' = IF ~RespOk(a.status) THEN CreateError("SO create failed", a.status)
                  ELSE IF a.code # 0 THEN CreateError("SO create error", a.code)
                  ELSE NoCreateError
       /\ cPc' = IF RespOk(a.status) /\ a.code = 0 THEN "returned" ELSE "thrown"
       /\ cResult' = IF RespOk(a.status) /\ a.code = 0 THEN 1 ELSE cResult
  /\ UNCHANGED <<cInput, cLookups, cContact, cPosts>>
  /\ UNCHANGED <<libVars, uVars, eVars, pVars, tVars, bVars>>

cInit ==
  /\ cPc = "idle" /\ cInput = [customer_id |-> NULL, customer_name |-> "", line_items |-> <<>>]
  /\ cLookups = 0 /\ cContact = "none" /\ cPosts = 0 /\ cResult = NULL /\ cErr = NoCreateError

(***************************************************************************)
(* Operations that step over a failed request                              *)
(*   fetchInvoicesAndMerge        zoho.ts 135-172                          *)
(*   fetchPendingDispatchMTM      zoho.ts 435-465                          *)
(*   syncBoutiqueImagesMTM        zoho.ts 590-697                          *)
(***************************************************************************)
MaxItems == 3       \* items of the list page (invoices, sales orders, items)

LibOps == {"merge", "pending", "sync"}
\* The label of the error a failed list page raises.
ListLabel(op) ==
  CASE op = "merge" -> "Invoices" [] op = "pending" -> "Salesorders" [] OTHER -> "Items"
LibError(kind, status) == [kind |-> kind, status |-> status]
NoLibError == LibError("none", 0)
LibFailures == {404, 500}

\* A caller invokes one of the three operations.
EStart ==
  /\ ePc = "idle"
  /\ \E op \in LibOps : eOp' = op
  /\ ePc' = "list"
  /\ UNCHANGED <<eTodo, eGot, eBad, eLogged, eErr>>
  /\ UNCHANGED <<libVars, uVars, cVars, pVars, tVars, bVars>>

\* The list page: if (!r.ok) throw new Error(`<label> ${r.status}`); the
\* merge also throws when no invoice matches.
EList ==
  /\ ePc = "list"
  /\ \/ \E st \in LibFailures :
          /\ ePc' = "thrown" /\ eErr' = LibError(ListLabel(eOp), st)
          /\ eBad' = eBad + 1 /\ UNCHANGED eTodo
     \/ \E n \in 0..MaxItems :
          /\ eTodo' = n /\ UNCHANGED eBad
          /\ IF eOp = "merge" /\ n = 0
               THEN ePc' = "thrown" /\ eErr' = LibError("No invoices found for selection", 0)
               ELSE ePc' = "items" /\ UNCHANGED eErr
  /\ UNCHANGED <<eOp, eGot, eLogged>>
  /\ UNCHANGED <<libVars, uVars, cVars, pVars, tVars, bVars>>

\* One iteration of the loop over the items.  merge: the PDF of an invoice,
\* if (!r.ok) continue.  pending: the detail of a sales order,
\* if (!r.ok) continue.  sync: the detail of an item, if (!rd.ok) continue,
\* then its document, whose failed download is logged (ERR) and passed over.
EItem ==
  /\ ePc = "items" /\ eTodo > 0
  /\ \/ eGot' = eGot + 1 /\ UNCHANGED <<eBad, eLogged>>
     \/ eBad' = eBad + 1 /\ UNCHANGED <<eGot, eLogged>>
     \/ /\ eOp = "sync"
        /\ eBad' = eBad + 1 /\ eLogged' = eLogged + 1 /\ UNCHANGED eGot
  /\ eTodo' = eTodo - 1
  /\ UNCHANGED <<eOp, ePc, eErr>>
  /\ UNCHANGED <<libVars, uVars, cVars, pVars, tVars, bVars>>

\* After the loop: the merge throws when it got no PDF at all, else it
\* merges and returns; pending returns its rows; sync goes on to the cleanup.
EFinish ==
  /\ ePc = "items" /\ eTodo = 0
  /\ IF eOp = "merge" /\ eGot = 0
       THEN ePc' = "thrown" /\ eErr' = LibError("No PDFs retrieved", 0)
       ELSE ePc' = (IF eOp = "sync" THEN "cleanup" ELSE "returned") /\ UNCHANGED eErr
  /\ UNCHANGED <<eOp, eTodo, eGot, eBad, eLogged>>
  /\ UNCHANGED <<libVars, uVars, cVars, pVars, tVars, bVars>>

\* sync, cleanup of a file no active item has: try { FS.deleteAsync } catch
\* { log WARN }, then the manifest is saved and the count returned.
ECleanup ==
  /\ ePc = "cleanup"
  /\ \/ UNCHANGED eLogged
     \/ eLogged' = eLogged + 1
  /\ ePc' = "returned"
  /\ UNCHANGED <<eOp, eTodo, eGot, eBad, eErr>>
  /\ UNCHANGED <<libVars, uVars, cVars, pVars, tVars, bVars>>

eInit ==
  /\ eOp = "none" /\ ePc = "idle" /\ eTodo = 0 /\ eGot = 0 /\ eBad = 0
  /\ eLogged = 0 /\ eErr = NoLibError

(***************************************************************************)
(* pickRate                                            history.ts 80-100   *)
(***************************************************************************)
\* A JavaScript value: a finite number, NaN, Infinity, null, undefined (a
\* missing field or argument), or a string that Number() parses (v) or not.
JsNum(v) == [t |-> "number", v |-> v]
JsNaN == [t |-> "NaN", v |-> 0]
JsInfinity == [t |-> "Infinity", v |-> 0]
JsNull == [t |-> "null", v |-> 0]
JsUndefined == [t |-> "undefined", v |-> 0]
JsNumericString(v) == [t |-> "string", v |-> v]
JsOtherString == [t |-> "string", v |-> NULL]

\* typeof x === 'number' && Number.isFinite(x)
IsFiniteNumber(x) == x.t = "number"
\* Number(x): null gives 0, a numeric string its number, the rest NaN.
ToNumber(x) ==
  CASE x.t = "number" -> x
    [] x.t = "null" -> JsNum(0)
    [] x.t = "string" /\ x.v # NULL -> JsNum(x.v)
    [] x.t = "Infinity" -> JsInfinity
    [] OTHER -> JsNaN
\* asNumber: the value when it is a finite number, else Number(value) when
\* that is finite, else 0.
asNumber(value) ==
  IF IsFiniteNumber(value) THEN value.v
  ELSE IF IsFiniteNumber(ToNumber(value)) THEN ToNumber(value).v ELSE 0
\* a ?? b
Coalesce(a, b) == IF a.t \in {"null", "undefined"} THEN b ELSE a

pickRateSwapped(row, priceList, manualRate) ==
  IF priceList = "Manual" THEN (IF IsFiniteNumber(manualRate) THEN manualRate.v ELSE 0)
  ELSE IF priceList = "Nett" THEN asNumber(Coalesce(row.exmill, row.exmill_rate))
  ELSE IF priceList = "Exmill" THEN asNumber(Coalesce(row.nett, row.nett_rate))
  ELSE 0
pickRate(row, priceList, manualRate) ==
  IF priceList = "Manual" THEN (IF IsFiniteNumber(manualRate) THEN manualRate.v ELSE 0)
  ELSE IF priceList = "Nett" THEN asNumber(Coalesce(row.nett, row.nett_rate))
  ELSE IF priceList = "Exmill" THEN asNumber(Coalesce(row.exmill, row.exmill_rate))
  ELSE 0

\* The rates of a row, and the arguments of a call.
RateValues ==
  { JsNum(123), JsNum(150), JsNum(0), JsNaN, JsInfinity, JsNull, JsUndefined,
    JsNumericString(150), JsOtherString }
ColumnValues == { JsUndefined, JsNum(99) }
PriceRows ==
  { [exmill |-> e, nett |-> n, exmill_rate |-> er, nett_rate |-> nr] :
      e \in RateValues, n \in RateValues, er \in ColumnValues, nr \in ColumnValues }
\* priceList: the three lists, '' and undefined.
PriceLists == {"Exmill", "Nett", "Manual", "", "undefined"}
ManualRates == { JsNum(777), JsNum(0), JsNaN, JsInfinity, JsUndefined, JsNumericString(150) }

\* A caller invokes pickRate(row, priceList, manualRate).
PCall ==
  /\ pPc = "idle"
  /\ \E r \in PriceRows, l \in PriceLists, m \in ManualRates :
       pRow' = r /\ pList' = l /\ pManual' = m
  /\ pPc' = "called"
  /\ UNCHANGED pOut
  /\ UNCHANGED <<libVars, uVars, cVars, eVars, tVars, bVars>>

\* The call returns.
PReturn ==
  /\ pPc = "called"
  /\ pOut' = pickRate(pRow, pList, pManual)
  /\ pPc' = "returned"
  /\ UNCHANGED <<pRow, pList, pManual>>
  /\ UNCHANGED <<libVars, uVars, cVars, eVars, tVars, bVars>>

pInit ==
  /\ pPc = "idle" /\ pOut = 0 /\ pList = "" /\ pManual = JsUndefined
  /\ pRow = [exmill |-> JsUndefined, nett |-> JsUndefined,
             exmill_rate |-> JsUndefined, nett_rate |-> JsUndefined]

(***************************************************************************)
(* The app session: const TODAY = new Date() and the runs    zoho.ts 711   *)
(***************************************************************************)
MaxSessionDays == 3   \* how long after the module was loaded the session lasts
TickHours == HoursPerDay \div 2

\* Time passes.
TTick ==
  /\ clock + TickHours <= TODAY + MaxSessionDays * HoursPerDay
  /\ clock' = clock + TickHours
  /\ UNCHANGED <<tInv, tRunAt, tAge>>
  /\ UNCHANGED <<libVars, uVars, cVars, eVars, pVars, bVars>>

\* A run of fetchOutstandingForOrg ages an open invoice: Age reads TODAY, the
\* constant the module set when it was loaded (at time TODAY).
TRun ==
  /\ \E inv \in InvoiceDocs : tInv' = inv /\ tAge' = Age(inv)
  /\ tRunAt' = clock
  /\ UNCHANGED clock
  /\ UNCHANGED <<libVars, uVars, cVars, eVars, pVars, bVars>>

tInit ==
  /\ clock = TODAY /\ tInv = Invoice(NULL, 0, 0, 0) /\ tRunAt = NULL /\ tAge = 0

(***************************************************************************)
(* New Sale Order screen: onCreate and its button                          *)
(*                                  NewSaleOrderScreen.tsx 536-624, 915-925*)
(***************************************************************************)
MaxTaps == 3        \* taps on "Create Sale Order & Share PDF"
MaxForms == 2       \* forms the user fills one after the other

Forms == 1..MaxForms
\* The runs of onCreate that have not reached their finally block.
Creating == { i \in 1..Len(nRuns) : nRuns[i].pc \in {"posting", "sharing"} }

\* The user picks a customer and a sales person and enters a line with a
\* quantity: the button is enabled.
NFill ==
  /\ nForm = "empty" /\ nFormId < MaxForms
  /\ nForm' = "filled" /\ nFormId' = nFormId + 1
  /\ UNCHANGED <<nLoading, nRuns, nCreated>>
  /\ UNCHANGED <<libVars, aVars, gVars, kVars, fVars, hVars>>

\* A tap on the button: disabled={!selectedCustomer || !selectedSalesperson ||
\* every quantity <= 0}.  onCreate runs up to its first await: a line with a
\* quantity and no valid item id throws before anything is sent, else
\* createSalesOrderMTM(payload) is called and sends the POST.
NTapCreate ==
  /\ nForm = "filled" /\ Len(nRuns) < MaxTaps
  /\ \E valid \in BOOLEAN :
       /\ nRuns' = Append(nRuns, [form |-> nFormId,
                                  pc |-> IF valid THEN "posting" ELSE "failed"])
       /\ nLoading' = valid
  /\ UNCHANGED <<nForm, nFormId, nCreated>>
  /\ UNCHANGED <<libVars, aVars, gVars, kVars, fVars, hVars>>

\* createSalesOrderMTM settles: an error goes to the catch block and to
\* finally { setLoading(false) }; else the server has created the sales order
\* and onCreate awaits the download and the sharing of its PDF.
NCreateSettles ==
  /\ \E i \in 1..Len(nRuns) :
       /\ nRuns[i].pc = "posting"
       /\ \/ /\ nRuns' = [nRuns EXCEPT ![i].pc = "failed"]
             /\ nLoading' = FALSE
             /\ UNCHANGED nCreated
          \/ /\ nRuns' = [nRuns EXCEPT ![i].pc = "sharing"]
             /\ nCreated' = [nCreated EXCEPT ![nRuns[i].form] = @ + 1]
             /\ UNCHANGED nLoading
  /\ UNCHANGED <<nForm, nFormId>>
  /\ UNCHANGED <<libVars, aVars, gVars, kVars, fVars, hVars>>

\* The PDF was shared, or could not be (a warning): the form is reset and
\* finally { setLoading(false) } runs.
NShared ==
  /\ \E i \in 1..Len(nRuns) :
       /\ nRuns[i].pc = "sharing"
       /\ nRuns' = [nRuns EXCEPT ![i].pc = "done"]
  /\ nForm' = "empty" /\ nLoading' = FALSE
  /\ UNCHANGED <<nFormId, nCreated>>
  /\ UNCHANGED <<libVars, aVars, gVars, kVars, fVars, hVars>>

nInit ==
  /\ nForm = "empty" /\ nFormId = 0 /\ nLoading = FALSE /\ nRuns = <<>>
  /\ nCreated = [f \in Forms |-> 0]

(***************************************************************************)
(* Boutique image sync: syncBoutiqueImagesMTM            zoho.ts 590-699   *)
(***************************************************************************)
MaxSyncItems == 2   \* active items the server lists

\* An active item: its id, its available_stock and the files `prefix/file_name`
\* of its documents.
Item(id, stock, docs) == [item_id |-> id, available_stock |-> stock, docs |-> docs]
SyncItems ==
  { Item(1, 5, {"AAA/a.jpg"}), Item(2, 0, {"BBB/b.jpg"}),
    Item(3, 2, {"CCC/c.jpg", "CCC/d.jpg"}) }
\* The files a local folder may hold: of a document above, or of none.
SyncFiles == (UNION { it.docs : it \in SyncItems }) \cup {"OLD/x.jpg"}
\* Lists of distinct items.
ItemLists ==
  { l \in SeqsUpTo(SyncItems, MaxSyncItems) :
      \A i, j \in 1..Len(l) : i # j => l[i] # l[j] }

\* The run starts: loadManifest() and what the device and the server hold.
GStart ==
  /\ gPc = "idle"
  /\ \E local \in SUBSET SyncFiles, items \in ItemLists :
       /\ gLocal' = local /\ gServer' = items
       /\ \E known \in {{}, local} : gKnown' = known
  /\ gPc' = "listing"
  /\ UNCHANGED <<gTodo, gActive, gDeleted, gDownloaded, gErr>>
  /\ UNCHANGED <<libVars, aVars, nVars, kVars, fVars, hVars>>

\* The page of active items: if (!r.ok) throw new Error(`Items ${r.status}`)
GListItems ==
  /\ gPc = "listing"
  /\ \/ \E st \in LibFailures :
          gPc' = "thrown" /\ gErr' = LibError("Items", st) /\ UNCHANGED gTodo
     \/ gPc' = "items" /\ gTodo' = gServer /\ UNCHANGED gErr
  /\ UNCHANGED <<gServer, gLocal, gKnown, gActive, gDeleted, gDownloaded>>
  /\ UNCHANGED <<libVars, aVars, nVars, kVars, fVars, hVars>>

\* One iteration of for (const item of items): an item without stock is
\* passed over; so is one whose detail request fails (if (!rd.ok) continue);
\* else every document is added to activeSet and is downloaded unless the
\* manifest knows it and its file exists (a failed download is logged).
GItem ==
  /\ gPc = "items" /\ gTodo # <<>>
  /\ LET item == Head(gTodo)
         needed == { f \in item.docs : ~(f \in gKnown /\ f \in gLocal) }
     IN \/ /\ item.available_stock <= 0
           /\ UNCHANGED <<gLocal, gKnown, gActive, gDownloaded>>
        \/ /\ item.available_stock > 0
           /\ UNCHANGED <<gLocal, gKnown, gActive, gDownloaded>>
        \/ /\ item.available_stock > 0
           /\ gActive' = gActive \cup item.docs
           /\ \E ok \in SUBSET needed :
                /\ gLocal' = gLocal \cup ok /\ gKnown' = gKnown \cup ok
                /\ gDownloaded' = gDownloaded + Cardinality(ok)
  /\ gTodo' = Tail(gTodo)
  /\ UNCHANGED <<gPc, gServer, gDeleted, gErr>>
  /\ UNCHANGED <<libVars, aVars, nVars, kVars, fVars, hVars>>

\* The cleanup: every local file that is not in activeSet is deleted (a
\* file that cannot be deleted gives a warning); then the manifest is saved.
GCleanup ==
  /\ gPc = "items" /\ gTodo = <<>>
  /\ \E stuck \in SUBSET (gLocal \ gActive) :
       /\ gDeleted' = (gLocal \ gActive) \ stuck
       /\ gLocal' = (gLocal \cap gActive) \cup stuck
  /\ gPc' = "done"
  /\ UNCHANGED <<gServer, gTodo, gKnown, gActive, gDownloaded, gErr>>
  /\ UNCHANGED <<libVars, aVars, nVars, kVars, fVars, hVars>>

gInit ==
  /\ gPc = "idle" /\ gServer = <<>> /\ gTodo = <<>> /\ gLocal = {} /\ gKnown = {}
  /\ gActive = {} /\ gDeleted = {} /\ gDownloaded = 0 /\ gErr = NoLibError

(***************************************************************************)
(* The callers of fetchOutstandingForOrg                                   *)
(*   OutstandingScreen (totalRow, currentRow, onRefreshAll)                *)
(*                                      unnamed/part_001 432, 473-524      *)
(*   buildAndShareOutstandingWorkbook   excel.ts 227-252                   *)
(* A JavaScript object is the sequence of its <<key, value>> entries, in   *)
(* insertion order, under the tag "object"; a string is under "text".      *)
(***************************************************************************)
MaxRows == 2        \* rows of a summary

JsObj(entries) == [t |-> "object", v |-> entries]
JsText(s) == [t |-> "text", v |-> s]
ObjKeys(o) == { o.v[i][1] : i \in 1..Len(o.v) }
\* o[k]
ObjGet(o, k) ==
  IF k \in ObjKeys(o) THEN o.v[CHOOSE i \in 1..Len(o.v) : o.v[i][1] = k][2] ELSE JsUndefined
\* Object.values(o)
ObjValues(o) == [i \in 1..Len(o.v) |-> o.v[i][2]]
\* o[k] = x
ObjSet(o, k, x) ==
  IF k \in ObjKeys(o)
    THEN JsObj([i \in 1..Len(o.v) |-> IF o.v[i][1] = k THEN <<k, x>> ELSE o.v[i]])
  ELSE JsObj(Append(o.v, <<k, x>>))

\* A row of the summary, with two of its amounts.
SummaryRow(name, total, balance) ==
  JsObj(<< <<"customerName", JsText(name)>>, <<"city", JsText("")>>,
           <<"Total", JsNum(total)>>, <<"Balance", JsNum(balance)>> >>)
SummaryRows ==
  { SummaryRow(n, t, b) : n \in {"A", "B"}, t \in {1000000, 500000}, b \in {0, 500000} }
\* rows: one entry per customer name, rows[custName] = row.
Summaries ==
  { JsObj([i \in 1..Len(l) |-> <<ObjGet(l[i], "customerName").v, l[i]>>]) :
      l \in { x \in SeqsUpTo(SummaryRows, MaxRows) :
                \A i, j \in 1..Len(x) :
                  i # j => ObjGet(x[i], "customerName") # ObjGet(x[j], "customerName") } }
\* invoicesByCustomer: per customer name, its list of invoice rows.
InvoicesFor(summary) ==
  JsObj([i \in 1..Len(summary.v) |-> <<summary.v[i][1], JsObj(<<>>)>>])
\* return { summary: rows, invoices: invoicesByCustomer }
Returned(summary) ==
  JsObj(<< <<"summary", summary>>, <<"invoices", InvoicesFor(summary)>> >>)

\* for (const k of Object.keys(base)) if (typeof base[k] === 'number') base[k] = 0
ZeroNumbers(o) ==
  JsObj([i \in 1..Len(o.v) |->
           IF o.v[i][2].t = "number" THEN <<o.v[i][1], JsNum(0)>> ELSE o.v[i]])
\* base[k] += v for a number v: NaN when base[k] is not a number.
AddTo(base, k, x) ==
  IF ObjGet(base, k).t = "number" THEN ObjSet(base, k, JsNum(ObjGet(base, k).v + x.v))
  ELSE ObjSet(base, k, JsNaN)
\* for (const [k, v] of Object.entries(r)) if (typeof v === 'number') base[k] += v
RECURSIVE AddEntries(_, _)
AddEntries(base, entries) ==
  IF entries = <<>> THEN base
  ELSE AddEntries(IF Head(entries)[2].t = "number"
                    THEN AddTo(base, Head(entries)[1], Head(entries)[2]) ELSE base,
                  Tail(entries))
RECURSIVE AddAll(_, _)
AddAll(base, vals) ==
  IF vals = <<>> THEN base ELSE AddAll(AddEntries(base, Head(vals).v), Tail(vals))
\* totalRow: null without values, else the first value with its numbers set
\* to 0, named TOTAL, to which the numbers of every value are added.
totalRow(rowsByCustomer) ==
  LET vals == ObjValues(rowsByCustomer) IN
  IF Len(vals) = 0 THEN JsNull
  ELSE AddAll(ObjSet(ObjSet(ZeroNumbers(vals[1]), "customerName", JsText("TOTAL")),
                     "city", JsText("")),
              vals)
\* currentRow: rowsByCustomer[selectedCustomer] when a customer is selected
\* and has an entry (an object is truthy), else totalRow.
currentRow(rowsByCustomer, selectedCustomer) ==
  IF selectedCustomer # "" /\ ObjGet(rowsByCustomer, selectedCustomer).t = "object"
    THEN ObjGet(rowsByCustomer, selectedCustomer)
  ELSE totalRow(rowsByCustomer)

\* onRefreshAll: const rowsMap = await fetchOutstandingForOrg(selectedOrg, ...)
KFetch ==
  /\ kPc \in {"idle", "shown"}
  /\ \E s \in Summaries : kRet' = Returned(s)
  /\ kPc' = "returned"
  /\ UNCHANGED <<kRows, kSelected, kXRet, kSheet>>
  /\ UNCHANGED <<libVars, aVars, nVars, gVars, fVars, hVars>>

\* setRowsByCustomer(rowsMap)
KShow ==
  /\ kPc = "returned"
  /\ kRows' = kRet /\ kPc' = "shown"
  /\ UNCHANGED <<kRet, kSelected, kXRet, kSheet>>
  /\ UNCHANGED <<libVars, aVars, nVars, gVars, fVars, hVars>>

\* The user selects a customer of the firm, or none.
KSelect ==
  /\ \E c \in {"", "A", "B"} \ {kSelected} : kSelected' = c
  /\ UNCHANGED <<kPc, kRet, kRows, kXRet, kSheet>>
  /\ UNCHANGED <<libVars, aVars, nVars, gVars, fVars, hVars>>

\* buildAndShareOutstandingWorkbook, for one firm:
\* const pm = await fetchOutstandingForOrg('PM', log);
\* sheetFromRows('PM Outstanding', Object.values(pm), 'PM')
KExcel ==
  /\ kXRet.t = "undefined"
  /\ \E s \in Summaries :
       /\ kXRet' = Returned(s)
       /\ kSheet' = ObjValues(Returned(s))
  /\ UNCHANGED <<kPc, kRet, kRows, kSelected>>
  /\ UNCHANGED <<libVars, aVars, nVars, gVars, fVars, hVars>>

kInit ==
  /\ kPc = "idle" /\ kRet = JsUndefined /\ kRows = JsObj(<<>>) /\ kSelected = ""
  /\ kXRet = JsUndefined /\ kSheet = <<>>

(***************************************************************************)
(* FormScreen: the firm selector and the customer list                     *)
(*                                          FormScreen.tsx 41-81, 184-202  *)
(* (DispatchItemWiseScreen and OutstandingScreen load and refresh their    *)
(* customer lists the same way: unnamed/part_001 76-119, 445-524.)         *)
(***************************************************************************)
Orgs == {"PM", "MTM"}
ListSizes == {0, 1}

\* A customer list: the firm it was read or fetched for, where it came from
\* and how many customers it has.
CustomerList(org, src, n) == [org |-> org, src |-> src, n |-> n]

\* The user picks another firm: setSelectedOrg(o.key).  cacheKey changes and
\* the effect starts reading the cache of the new firm.
FSelectOrg ==
  /\ \E o \in Orgs \ {fOrg} : fOrg' = o /\ fReads' = fReads \cup {o}
  /\ UNCHANGED <<fList, fLoadingCust, fFetch, fCache>>
  /\ UNCHANGED <<libVars, aVars, nVars, gVars, kVars, hVars>>

\* await AsyncStorage.getItem(cacheKey) of an effect settles:
\* setCustomers(parsed.customers || []), or setCustomers([]).
FCacheRead ==
  /\ \E o \in fReads :
       /\ fReads' = fReads \ {o}
       /\ fList' = CustomerList(o, "cache", IF fCache[o] = NULL THEN 0 ELSE fCache[o])
  /\ UNCHANGED <<fOrg, fLoadingCust, fFetch, fCache>>
  /\ UNCHANGED <<libVars, aVars, nVars, gVars, kVars, hVars>>

\* refreshCustomers up to its await: the refresh button is disabled while
\* loadingCust; fetchCustomers(selectedOrg) is sent for the firm selected now.
FRefresh ==
  /\ ~fLoadingCust
  /\ fLoadingCust' = TRUE /\ fFetch' = fOrg
  /\ UNCHANGED <<fOrg, fList, fReads, fCache>>
  /\ UNCHANGED <<libVars, aVars, nVars, gVars, kVars, hVars>>

\* fetchCustomers settles: setCustomers(list) and the list is cached under
\* the cacheKey of the render that started the refresh; or the catch block.
\* finally { setLoadingCust(false) }.
FFetchSettles ==
  /\ fFetch # "none"
  /\ \/ UNCHANGED <<fList, fCache>>
     \/ \E n \in ListSizes :
          /\ fList' = CustomerList(fFetch, "fetch", n)
          /\ fCache' = [fCache EXCEPT ![fFetch] = n]
  /\ fFetch' = "none" /\ fLoadingCust' = FALSE
  /\ UNCHANGED <<fOrg, fReads>>
  /\ UNCHANGED <<libVars, aVars, nVars, gVars, kVars, hVars>>

\* The screen after its first render: the effect reads the cache of PM.
fInit ==
  /\ fOrg = "PM" /\ fList = CustomerList("PM", "initial", 0) /\ fLoadingCust = FALSE
  /\ fFetch = "none" /\ fReads = {"PM"} /\ fCache = [o \in Orgs |-> NULL]

(***************************************************************************)
(* The history of merged files: getHistory, pushHistory   history.ts 15-29 *)
(***************************************************************************)
MaxPushes == 10     \* pushHistory calls (sendData runs one at a time)
\* list.slice(0, 5)
HistoryKept == 5

\* list.unshift(item); const trimmed = list.slice(0, 5)
Trimmed(list, item) == SubSeq(<<item>> \o list, 1, Min(HistoryKept, Len(list) + 1))

\* pushHistory(item) up to the end of getHistory(): the stored list, or []
\* when reading or parsing it throws (catch { return []; }).
HGetHistory ==
  /\ hPc = "idle" /\ hPushes < MaxPushes
  /\ hItem' = hPushes + 1
  /\ \/ hList' = hStore
     \/ hList' = <<>>
  /\ hPc' = "read"
  /\ UNCHANGED <<hStore, hPushes>>
  /\ UNCHANGED <<libVars, aVars, nVars, gVars, kVars, fVars>>

\* await AsyncStorage.setItem(KEY, JSON.stringify(trimmed))
HSetItem ==
  /\ hPc = "read"
  /\ hStore' = Trimmed(hList, hItem)
  /\ hPushes' = hPushes + 1 /\ hPc' = "idle"
  /\ UNCHANGED <<hItem, hList>>
  /\ UNCHANGED <<libVars, aVars, nVars, gVars, kVars, fVars>>

hInit ==
  /\ hStore = <<>> /\ hPc = "idle" /\ hItem = 0 /\ hList = <<>> /\ hPushes = 0

(***************************************************************************)
(* Specifications                                                          *)
(***************************************************************************)
oInit ==
  /\ oPc = "start" /\ contacts = <<>> /\ openInvoices = <<>> /\ creditnotes = <<>>
  /\ payments = <<>> /\ advances = <<>> /\ ci = 1 /\ rows = <<>>
  /\ invoicesByCustomer = <<>> /\ cur = <<>> /\ oErr = NoErr /\ caught = 0

sInit ==
  /\ sPc = "start" /\ soList = <<>> /\ soFull = <<>> /\ invList = <<>>
  /\ invFull = <<>> /\ out = <<>> /\ sErr = NoErr

Init == zInit /\ oInit /\ sInit /\ uInit /\ cInit /\ eInit /\ pInit /\ tInit
  /\ nInit
  /\ gInit
  /\ kInit
  /\ fInit
  /\ hInit

\* One call of zFetchJSON against an arbitrary server.
ZNext == ZCall \/ ZAttempt \/ ZGiveUp
SpecZFetch == Init /\ [][ZNext]_vars

\* One run of fetchOutstandingForOrg against an arbitrary server.
ONext ==
  \/ OFetchContacts \/ OFetchInvoices \/ OFetchCreditNotes \/ OFetchPayments
  \/ OFetchAdvances \/ OFetchRetainers \/ OProcessContact \/ OReturn
SpecOutstanding == Init /\ [][ONext]_vars

\* One run of fetchSaleOrderStatusMTM against an arbitrary server.
SNext == SListSOs \/ SHydrateSO \/ SListInvoices \/ SHydrateInvoice \/ SBuild
SpecSOStatus == Init /\ [][SNext]_vars

\* One mounted Sale Order Status screen and its user.
UNext ==
  \/ UMount \/ URunEffect \/ URefresh \/ UPickCustomer
  \/ UCustomersArrive \/ UResponse \/ UResume
SpecScreen == Init /\ [][UNext]_vars

\* One invocation of createSalesOrderMTM against an arbitrary server.
CNext == CCall \/ CPrepare \/ CRespond
SpecCreate == Init /\ [][CNext]_vars

\* One run of fetchInvoicesAndMerge, fetchPendingDispatchMTM or
\* syncBoutiqueImagesMTM against an arbitrary server.
ENext == EStart \/ EList \/ EItem \/ EFinish \/ ECleanup
SpecLibOps == Init /\ [][ENext]_vars

\* One call of pickRate on arbitrary arguments.
PNext == PCall \/ PReturn
SpecPickRate == Init /\ [][PNext]_vars

\* An app session in which time passes between the runs.
TNext == TTick \/ TRun
SpecSession == Init /\ [][TNext]_vars

\* One mounted New Sale Order screen and its user.
NNext == NFill \/ NTapCreate \/ NCreateSettles \/ NShared
SpecNewOrder == Init /\ [][NNext]_vars

\* One run of syncBoutiqueImagesMTM on an arbitrary device and server.
GNext == GStart \/ GListItems \/ GItem \/ GCleanup
SpecSync == Init /\ [][GNext]_vars

\* The Outstanding screen and the workbook builder on arbitrary summaries.
KNext == KFetch \/ KShow \/ KSelect \/ KExcel
SpecCallers == Init /\ [][KNext]_vars

\* One mounted FormScreen and its user.
FNext == FSelectOrg \/ FCacheRead \/ FRefresh \/ FFetchSettles
SpecFirm == Init /\ [][FNext]_vars

\* pushHistory calls one after the other on a storage that may fail to read.
HNext == HGetHistory \/ HSetItem
SpecHistory == Init /\ [][HNext]_vars


(***************************************************************************)
(* Claims about fetchOutstandingForOrg (checked under SpecOutstanding)     *)
(***************************************************************************)
\* The day ranges of the eleven aging buckets; the last one has no upper end.
AgingRanges ==
  << <<0, 15>>, <<16, 30>>, <<31, 45>>, <<46, 60>>, <<61, 90>>, <<91, 120>>,
     <<121, 150>>, <<151, 180>>, <<181, 365>>, <<366, 730>>, <<731, 731>> >>
InRange(b, d) ==
  IF b = 11 THEN AgingRanges[b][1] <= d
  ELSE AgingRanges[b][1] <= d /\ d <= AgingRanges[b][2]
MaxAge == 760    \* the ages 0..MaxAge are checked one by one

\* Rounding to cents, a half cent going up (amounts are in mills).
HalfUpCents(x) == IF x % 10 >= 5 THEN ((x \div 10) + 1) * 10 ELSE (x \div 10) * 10
WholeCents(x) == x % 10 = 0

\* The age in days of an invoice: today (day 1000) minus its date, 0 when
\* that is negative or when there is no date.
AgeInDays(inv) == IF inv.date = 0 THEN 0 ELSE IF inv.date > 1000 THEN 0 ELSE 1000 - inv.date
\* The outstanding balance of an invoice (its total when no balance is given).
Outstanding(inv) == IF inv.balance # NULL THEN inv.balance ELSE inv.total

RECURSIVE SumOutstanding(_)
SumOutstanding(S) ==
  IF S = {} THEN 0
  ELSE LET k == CHOOSE x \in S : TRUE
       IN Outstanding(openInvoices[k]) + SumOutstanding(S \ {k})

\* The open invoices of the i-th contact whose age is in the range of bucket b.
InvoicesIn(i, b) ==
  { k \in 1..Len(openInvoices) :
      /\ openInvoices[k].customer_id = contacts[i].contact_id
      /\ InRange(b, AgeInDays(openInvoices[k])) }
InvoicesOf(i) ==
  { k \in 1..Len(openInvoices) : openInvoices[k].customer_id = contacts[i].contact_id }

\* C1: every open invoice of a contact adds its full outstanding balance to
\* exactly one of the eleven aging buckets (the one whose range holds its
\* age), and the ranges [0,15] .. [731,infinity) are contiguous and cover
\* every age >= 0: no age is in no bucket or in two.
C1_Buckets ==
  /\ AgingRanges[1][1] = 0
  /\ \A b \in 1..10 : AgingRanges[b + 1][1] = AgingRanges[b][2] + 1
  /\ oPc = "start" =>
       \A d \in 0..MaxAge :
         /\ Cardinality({ b \in 1..11 : InRange(b, d) }) = 1
         /\ InRange(bucketIndex(d), d)
  /\ \A i \in 1..Len(cur) :
       /\ \A b \in 1..11 : cur[i].buckets[b] = SumOutstanding(InvoicesIn(i, b))
       /\ SumSeq(cur[i].buckets) = SumOutstanding(InvoicesOf(i))

\* A contact with an invoice of 20 days and one of 400 days.
C1_Witness ==
  \E i \in 1..Len(cur) : cur[i].buckets[2] > 0 /\ cur[i].buckets[10] > 0

\* C2 as claimed: in every row of the summary, Total is the sum of the row's
\* eleven bucket amounts and Above_180 the sum of its last three.
C2_AsClaimed ==
  \A n \in DOMAIN rows :
    /\ rows[n].Total = SumSeq(rows[n].bucket)
    /\ rows[n].Above_180 = rows[n].bucket[9] + rows[n].bucket[10] + rows[n].bucket[11]

\* C2 amended: Total is the sum of the eleven bucket sums rounded to cents,
\* and Above_180 the sum of the last three bucket sums rounded to cents, each
\* bucket amount of the row being its bucket sum rounded on its own; they are
\* the sums of the row's bucket amounts whenever every bucket sum is a whole
\* number of cents.
C2_Totals ==
  \A n \in DOMAIN rows :
    LET r == rows[n]
        b == cur[r.iter].buckets
    IN /\ \A k \in 1..11 : r.bucket[k] = HalfUpCents(b[k])
       /\ r.Total = HalfUpCents(SumSeq(b))
       /\ r.Above_180 = HalfUpCents(b[9] + b[10] + b[11])
       /\ (\A k \in 1..11 : WholeCents(b[k])) =>
            /\ r.Total = SumSeq(r.bucket)
            /\ r.Above_180 = r.bucket[9] + r.bucket[10] + r.bucket[11]

\* A row with an amount below and an amount above 180 days.
C2_Witness ==
  \E n \in DOMAIN rows :
    /\ rows[n].Above_180 > 0 /\ rows[n].Total > rows[n].Above_180
    /\ rows[n].Total = SumSeq(rows[n].bucket)

\* C3 as claimed: in every row, Balance = round2(Total - CN - Payment), the
\* three being the values of the row.
C3_AsClaimed ==
  \A n \in DOMAIN rows :
    rows[n].Balance = HalfUpCents(rows[n].Total - rows[n].CN - rows[n].Payment)

\* C3 amended: Balance is round2 of the bucket total minus the credit-note
\* sum and the unused sum, all three before they are rounded; it is
\* round2(Total - CN - Payment) of the row's values whenever the three sums
\* are whole numbers of cents.
C3_Balance ==
  \A n \in DOMAIN rows :
    LET r == rows[n]
        l == cur[r.iter]
    IN /\ r.Balance = HalfUpCents(l.totalOut - l.cnSum - l.totalUnused)
       /\ (WholeCents(l.totalOut) /\ WholeCents(l.cnSum) /\ WholeCents(l.totalUnused)) =>
            r.Balance = HalfUpCents(r.Total - r.CN - r.Payment)

\* A row with an invoiced amount, a credit note and unused funds.
C3_Witness ==
  \E n \in DOMAIN rows :
    /\ rows[n].Total > 0 /\ rows[n].CN > 0 /\ rows[n].Payment > 0
    /\ rows[n].Balance = rows[n].Total - rows[n].CN - rows[n].Payment

\* The monetary fields of the i-th contact: its eleven bucket sums, its
\* credit notes, its unused funds and its two payment windows.
AllZero(l) ==
  /\ \A b \in 1..11 : l.buckets[b] = 0
  /\ l.cnSum = 0 /\ l.totalUnused = 0 /\ l.p0_15 = 0 /\ l.p16_90 = 0
PositionSum(l) == l.totalOut + l.cnSum + l.totalUnused + l.p0_15 + l.p16_90
RowsOf(i) == { n \in DOMAIN rows : rows[n].iter = i }

\* C4: a contact whose monetary fields are all zero has no row; the row of a
\* contact is suppressed exactly when
\* Total + CN + Payment + payments0_15 + payments16_90 = 0.
C4_Suppressed ==
  \A i \in 1..Len(cur) :
    /\ AllZero(cur[i]) => RowsOf(i) = {}
    /\ PositionSum(cur[i]) = 0 => RowsOf(i) = {}
    /\ (i = Len(cur) /\ PositionSum(cur[i]) # 0) => RowsOf(i) = {cur[i].custName}

\* A suppressed contact, beside a contact whose only non-zero field is a
\* payment window and who has a row.
C4_Witness ==
  /\ oPc = "done"
  /\ \E i \in 1..Len(cur) : AllZero(cur[i]) /\ RowsOf(i) = {}
  /\ \E i \in 1..Len(cur) :
       /\ cur[i].totalOut + cur[i].cnSum + cur[i].totalUnused = 0
       /\ cur[i].p16_90 > 0 /\ RowsOf(i) # {}

\* C5: the summary has a row for every fetched contact whose monetary fields
\* are not all zero, holding that contact's own bucket, CN, Payment and
\* Balance values: no row of a contact is replaced by the row of another.
C5_OneRowPerCustomer ==
  oPc = "done" =>
    \A i \in 1..Len(contacts) :
      ~AllZero(cur[i]) =>
        \E n \in DOMAIN rows :
          /\ rows[n].customerName = contacts[i].contact_name
          /\ \A b \in 1..11 : rows[n].bucket[b] = HalfUpCents(cur[i].buckets[b])
          /\ rows[n].CN = HalfUpCents(cur[i].cnSum)
          /\ rows[n].Payment = HalfUpCents(cur[i].totalUnused)
          /\ rows[n].Balance =
               HalfUpCents(cur[i].totalOut - cur[i].cnSum - cur[i].totalUnused)

\* The resource whose paginated fetch runs at position pc.
ResourceAt(pc) ==
  CASE pc = "start" -> "contacts"
    [] pc \in {"invoices", "invoices2"} -> "invoices"
    [] pc = "creditnotes" -> "creditnotes"
    [] pc = "payments" -> "customerpayments"
    [] OTHER -> "none"
FatalResources == {"contacts", "invoices", "creditnotes", "customerpayments"}

\* C11 as claimed: when a paginated fetch of contacts, open invoices, open
\* credit notes or payments gets a non-success status, whatever the status,
\* the aggregation aborts with an error that identifies the failing resource
\* and the status code, and no summary is returned.
C11_AsClaimed ==
  oPc = "error" =>
    /\ oErr.label \in FatalResources
    /\ oErr.status \in PagedFailures
    /\ rows = <<>>

\* C11 amended: the aggregation aborts and returns no summary on every
\* non-success status; the error names the failing resource and the status
\* code for every status but 404, where it carries the text '404' alone and
\* does not name the resource.
C11_Abort ==
  /\ [](oPc = "error" =>
          /\ oErr.kind = "status" /\ oErr.status \in PagedFailures
          /\ (oErr.status # 404 => oErr.label \in FatalResources)
          /\ (oErr.status = 404 => oErr.label = "")
          /\ rows = <<>> /\ cur = <<>>)
  /\ [][ /\ (oPc # "error" /\ oPc' = "error") =>
              /\ ResourceAt(oPc) \in FatalResources
              /\ oErr'.status # 404 => oErr'.label = ResourceAt(oPc)
         /\ oPc = "error" => oPc' = "error" ]_vars

\* The fetch of the payments fails with status 500 after the contacts, the
\* invoices and the credit notes arrived.
C11_Witness ==
  /\ oPc = "error" /\ oErr.status = 500 /\ oErr.label = "customerpayments"
  /\ contacts # <<>> /\ openInvoices # <<>>

\* The unused funds of the i-th contact, from its payments and from the
\* advances list the run ended up with.
UnusedOf(i, advs) ==
  UnusedPay(OfCustomer(payments, contacts[i].contact_id))
    + UnusedAdv(OfCustomer(advs, contacts[i].contact_id))

\* C12: a failure of the advance-payments endpoint is not fatal: the run
\* goes on to the retainer-invoices endpoint, and when that fails too it
\* goes on with an empty advances list and still returns a summary computed
\* from the other resources.
C12_Fallback ==
  /\ [](caught > 0 => oPc \in {"retainer", "loop", "done"} /\ oErr = NoErr)
  /\ [](caught = 2 => advances = <<>>)
  /\ []((caught = 2 /\ oPc = "done") =>
          \A i \in 1..Len(contacts) :
            /\ cur[i].totalUnused = UnusedOf(i, <<>>)
            /\ cur[i].totalOut = SumOutstanding(InvoicesOf(i))
            /\ ~Prune(cur[i]) => contacts[i].contact_name \in DOMAIN rows)
  /\ [][ /\ oPc = "advances" => oPc' \in {"retainer", "loop"}
         /\ oPc = "retainer" => oPc' = "loop"
         /\ (oPc = "advances" /\ oPc' = "retainer") => caught' = 1
         /\ (oPc = "retainer" /\ caught' = 1) => advances' \in Pages(RetainerDocs)
         /\ oPc = "loop" => oPc' \in {"loop", "done"} ]_vars

\* Both endpoints failed and the summary returned has a row.
C12_Witness ==
  oPc = "done" /\ caught = 2 /\ advances = <<>> /\ DOMAIN rows # {}
\* The first endpoint failed and the fallback gave a retainer invoice.
C12_FellBack ==
  oPc = "done" /\ caught = 1 /\ advances # <<>> /\ DOMAIN rows # {}

\* The run fetched exactly these lists and returned.
Fetched(cs, invs, cns, pays, advs) ==
  /\ oPc = "done" /\ contacts = cs /\ openInvoices = invs /\ creditnotes = cns
  /\ payments = pays /\ advances = advs

\* C18: one customer with a single open invoice of balance 1000 dated 20
\* days ago, no credit note, no payment: the row is present, with bucket
\* 16-30 = 1000, every other bucket 0, Total 1000, CN 0, Payment 0 and
\* Balance 1000.
C18_Example ==
  Fetched(<<Contact(1, "A")>>, <<Invoice(1, DaysAgo(20), 1000000, 1000000)>>,
          <<>>, <<>>, <<>>) =>
    /\ DOMAIN rows = {"A"}
    /\ rows["A"].bucket = [k \in 1..11 |-> IF k = 2 THEN 1000000 ELSE 0]
    /\ rows["A"].Total = 1000000 /\ rows["A"].CN = 0 /\ rows["A"].Payment = 0
    /\ rows["A"].Balance = 1000000

C18_Witness ==
  /\ Fetched(<<Contact(1, "A")>>, <<Invoice(1, DaysAgo(20), 1000000, 1000000)>>,
             <<>>, <<>>, <<>>)
  /\ "A" \in DOMAIN rows

\* C19: one customer with an open invoice of balance 500 dated 400 days ago
\* and a payment of 500, wholly unused, dated 5 days ago: the row is present
\* although its Balance is 0, with bucket 366-730 = 500, Total 500, Payment
\* 500, Balance 0 and 0-15_payments 500.
C19_Example ==
  Fetched(<<Contact(1, "A")>>, <<Invoice(1, DaysAgo(400), 1000000, 500000)>>,
          <<>>, <<Payment(1, DaysAgo(5), 500000, 500000)>>, <<>>) =>
    /\ DOMAIN rows = {"A"}
    /\ rows["A"].bucket = [k \in 1..11 |-> IF k = 10 THEN 500000 ELSE 0]
    /\ rows["A"].Total = 500000 /\ rows["A"].Payment = 500000
    /\ rows["A"].Balance = 0 /\ rows["A"].payments_0_15 = 500000

C19_Witness ==
  /\ Fetched(<<Contact(1, "A")>>, <<Invoice(1, DaysAgo(400), 1000000, 500000)>>,
             <<>>, <<Payment(1, DaysAgo(5), 500000, 500000)>>, <<>>)
  /\ cur[1].totalOut = cur[1].totalUnused

(***************************************************************************)
(* Claims about zFetchJSON (checked under SpecZFetch)                      *)
(***************************************************************************)
RetryStatuses == {429, 502, 503}
\* 1000 * 1.6^(attempt + 1) ms capped at 10000 ms, in tenths of a ms, for
\* attempt = 0 .. 6.
BackoffTable == <<16000, 25600, 40960, 65536, 100000, 100000, 100000>>

\* A further request is sent only after a 429, 502 or 503.
C9_RetryOnly ==
  (zRequests >= 1 /\ zRequests' = zRequests + 1) => zResp.status \in RetryStatuses
\* At most 6 retries (7 requests) of one request; then the call fails.
C9_Bounded == zRequests <= 6 + 1
C9_ThenFails == (zPc = "running" /\ zRequests = 6 + 1) => zPc' = "thrown"
\* A success response ends the loop at once with the parsed body.
C9_Success ==
  /\ (zRequests' = zRequests + 1 /\ RespOk(zResp'.status)) => zPc' = "returned"
  /\ zPc' = "returned" => (RespOk(zResp'.status) /\ zResult' = zResp'.body)
\* The delay slept after the retryable response of iteration zAttempt - 1.
C9_WaitAbsent ==
  (zPc = "running" /\ zRequests >= 1 /\ zResp.retryAfter.kind = "absent")
    => zWait = BackoffTable[zAttempt]
C9_WaitPresent ==
  (zPc = "running" /\ zRequests >= 1 /\ zResp.retryAfter.kind = "secs")
    => zWait = zResp.retryAfter.secs * 1000 * 10
C9_WaitPositive ==
  (zPc = "running" /\ zRequests >= 1)
    => zWait = IF zResp.retryAfter.kind = "secs" /\ zResp.retryAfter.secs > 0
                 THEN zResp.retryAfter.secs * 1000 * 10
                 ELSE BackoffTable[zAttempt]

IsPrefix140(e, body) ==
  /\ Len(e) = Min(Len(body), 140)
  /\ \A i \in 1..Len(e) : e[i] = body[i]

\* C10 as claimed: whenever zFetchJSON gives up (a non-retryable status, or
\* the retries exhausted) the error carries the HTTP status code and the
\* response body truncated.
C10_AsClaimed ==
  zPc = "thrown" =>
    /\ zErr.kind = "status"
    /\ zErr.status = zResp.status
    /\ IsPrefix140(zErr.body, zResp.body)

\* C10 amended: the error of a non-success status other than 429/502/503
\* carries the label, the status code and the first 140 characters of the
\* body; the error raised when the retries are exhausted carries the label and
\* the text "too many retries" only, neither status nor body.
C10_Errors ==
  zPc = "thrown" =>
    /\ zErr.label = zLabel
    /\ IF zResp.status \in RetryStatuses
         THEN /\ zRequests = 7
              /\ zErr.kind = "too many retries" /\ zErr.status = 0 /\ zErr.body = <<>>
         ELSE /\ zErr.kind = "status"
              /\ zErr.status = zResp.status
              /\ IsPrefix140(zErr.body, zResp.body)

\* A non-retryable status with a body longer than 140 characters was thrown.
C10_Witness == zPc = "thrown" /\ zErr.kind = "status" /\ Len(zResp.body) > 140


(***************************************************************************)
(* Claims about fetchSaleOrderStatusMTM (checked under SpecSOStatus)       *)
(***************************************************************************)
\* The sales-order line an invoice line links to: the first non-empty of its
\* four link fields (NULL: none).
LinkOf(li) ==
  LET c == <<li.salesorder_item_id, li.salesorder_line_item_id,
             li.salesorderitem_id, li.linked_salesorder_item_id>>
      set == { k \in 1..4 : c[k] # NULL }
  IN IF set = {} THEN NULL ELSE c[CHOOSE k \in set : \A h \in set : k <= h]

\* The id of a sales-order line: the first non-empty of its three id fields.
LineIdOf(li) ==
  LET c == <<li.line_item_id, li.salesorder_item_id, li.salesorderlineitem_id>>
      set == { k \in 1..3 : c[k] # NULL }
  IN IF set = {} THEN NULL ELSE c[CHOOSE k \in set : \A h \in set : k <= h]

\* The positions <<invoice, line>> of the hydrated invoice lines linking to id.
Linking(id) ==
  { p \in (1..Len(invFull)) \X (1..MaxInvLines) :
      /\ p[2] <= Len(invFull[p[1]].line_items)
      /\ LinkOf(invFull[p[1]].line_items[p[2]]) = id }

RECURSIVE SumQuantities(_)
SumQuantities(S) ==
  IF S = {} THEN 0
  ELSE LET p == CHOOSE q \in S : TRUE
       IN invFull[p[1]].line_items[p[2]].quantity + SumQuantities(S \ {p})

\* The lines of the result paired with the hydrated sales-order lines.
ResultLines ==
  { p \in (1..Len(out)) \X (1..2) : p[1] <= Len(soFull) /\ p[2] <= Len(out[p[1]].lines)
                                     /\ p[2] <= Len(soFull[p[1]].line_items) }

\* C6: in the result, dispQty of every sales-order line is the sum of the
\* quantities of all hydrated invoice lines that link to it; a line with no
\* linking invoice line has dispQty 0 and no events.
C6_DispQty ==
  sPc = "done" =>
    \A p \in ResultLines :
      LET id == LineIdOf(soFull[p[1]].line_items[p[2]])
          ln == out[p[1]].lines[p[2]]
      IN /\ ln.dispQty = SumQuantities(Linking(id))
         /\ Linking(id) = {} => (ln.dispQty = 0 /\ ln.events = <<>>)

\* A line dispatched by two invoice lines of quantities 1 and 2, beside a line
\* that no invoice line links to.
C6_Witness ==
  /\ sPc = "done"
  /\ \E p \in ResultLines : out[p[1]].lines[p[2]].dispQty = 3
  /\ \E p \in ResultLines : out[p[1]].lines[p[2]].events = <<>>

\* The events of the invoice lines linking to id, in the order the invoices
\* were fetched (and, within an invoice, the order of its lines).
RECURSIVE FetchOrder(_, _, _)
FetchOrder(id, i, j) ==
  IF i > Len(invFull) THEN <<>>
  ELSE IF j > Len(invFull[i].line_items) THEN FetchOrder(id, i + 1, 1)
  ELSE IF LinkOf(invFull[i].line_items[j]) = id
    THEN <<[invoice_id |-> invFull[i].invoice_id, date |-> invFull[i].date,
            qty |-> invFull[i].line_items[j].quantity]>> \o FetchOrder(id, i, j + 1)
  ELSE FetchOrder(id, i, j + 1)

Bijections(n) == { f \in [1..n -> 1..n] : \A a, b \in 1..n : f[a] = f[b] => a = b }

\* R is E sorted by date, equal dates keeping their order in E.
StableSorted(R, E) ==
  /\ Len(R) = Len(E)
  /\ \E f \in Bijections(Len(E)) :
       /\ \A a \in 1..Len(R) : R[a] = E[f[a]]
       /\ \A a, b \in 1..Len(R) :
            a < b => /\ R[a].date <= R[b].date
                     /\ R[a].date = R[b].date => f[a] < f[b]

\* C7: the events of every line of the result are in non-decreasing order of
\* invoice date, and events of equal date keep the order in which their
\* invoices were fetched.
C7_EventsSorted ==
  sPc = "done" =>
    \A p \in ResultLines :
      StableSorted(out[p[1]].lines[p[2]].events,
                   FetchOrder(LineIdOf(soFull[p[1]].line_items[p[2]]), 1, 1))

\* A line with two events of the same date, of invoices 1 and 2 in that order.
C7_Witness ==
  /\ sPc = "done"
  /\ \E p \in ResultLines :
       LET evs == out[p[1]].lines[p[2]].events IN
       /\ Len(evs) = 2 /\ evs[1].date = evs[2].date /\ evs[1].date > 0
       /\ evs[1].invoice_id = 1 /\ evs[2].invoice_id = 2

\* A line whose two events were fetched in decreasing order of date.
C7_Swapped ==
  /\ sPc = "done"
  /\ \E p \in ResultLines :
       LET evs == out[p[1]].lines[p[2]].events IN
       /\ Len(evs) = 2 /\ evs[1].date < evs[2].date
       /\ evs[1].invoice_id = 2 /\ evs[2].invoice_id = 1

\* C8: the result has exactly one entry per sales order of the fetched list,
\* in the order of the list, and the lines of each entry are the line items
\* of that sales order in their order.
C8_OrderKept ==
  sPc = "done" =>
    /\ Len(out) = Len(soList)
    /\ \A k \in 1..Len(out) :
         /\ out[k].salesorder_id = soList[k].salesorder_id
         /\ k <= Len(soFull)
         /\ Len(out[k].lines) = Len(soFull[k].line_items)
         /\ \A j \in 1..Len(out[k].lines) :
              out[k].lines[j].salesorder_item_id = LineIdOf(soFull[k].line_items[j])

\* Sales orders 2 and 1 were listed in that order, order 1 with lines 12, 11.
C8_Witness ==
  /\ sPc = "done" /\ Len(out) = 2
  /\ out[1].salesorder_id = 2 /\ out[2].salesorder_id = 1
  /\ Len(out[2].lines) = 2
  /\ out[2].lines[1].salesorder_item_id = 12 /\ out[2].lines[2].salesorder_item_id = 11

\* C13: when a list call fails, or a detail call of a sales order or of an
\* invoice fails (retries exhausted, or a status that is not retried), the
\* operation ends with an error and returns nothing; a returned list is
\* built from every sales order and every invoice of the lists.
C13_NoPartial ==
  /\ [](sPc = "error" => sErr.kind \in {"status", "too many retries"} /\ out = <<>>)
  /\ [](sPc = "done" =>
          /\ sErr = NoErr
          /\ Len(out) = Len(soList) /\ Len(soFull) = Len(soList)
          /\ soList # <<>> => Len(invFull) = Len(invList))
  /\ [][ /\ sPc = "error" => sPc' = "error"
         /\ (sPc \in {"start", "invList"} /\ sPc' = "error") =>
               sErr'.kind = "status" /\ sErr'.label \in {"Sales Orders", "Invoices"}
         /\ (sPc \in {"soHydrate", "invHydrate"} /\ sPc' = "error") =>
               sErr'.label \in {"SO detail", "Invoice detail"} ]_vars

\* The detail call of the second invoice is throttled seven times, after the
\* first invoice was hydrated.
C13_Witness ==
  /\ sPc = "error" /\ sErr.kind = "too many retries" /\ sErr.label = "Invoice detail"
  /\ Len(invFull) = 1 /\ Len(invList) = 2 /\ out = <<>>


(***************************************************************************)
(* Claims about the Sale Order Status screen (checked under SpecScreen)    *)
(***************************************************************************)
\* C14: at any moment at most one request of the pagination and hydration
\* loops is in flight, also when the screen loads on mount, after the
\* customer list arrives, on a refresh tap and on a change of the filter.
C14_OneInFlight == InFlight <= 1

\* Every load started has completed with a result, and no effect is due.
AllLoaded ==
  /\ uLoads # <<>> /\ ~uEffectDue
  /\ \A i \in 1..Len(uLoads) : uLoads[i].pc = "done"

\* C24: once every load started on the screen has completed, the sales
\* orders displayed are the result fetched for the filter now selected: the
\* result of a load started for an earlier filter never replaces the result
\* of a load started for a later one.
C24_LatestShown == AllLoaded => uData = uCustomerId

(***************************************************************************)
(* Claims about createSalesOrderMTM (checked under SpecCreate)             *)
(***************************************************************************)
PostErrors == {"SO create failed", "SO create error"}

\* C15: one invocation of createSalesOrderMTM sends the POST to /salesorders
\* at most once, and when the POST fails (a non-success status, or a
\* non-zero code in the response) it raises an error and does not send the
\* POST again.
C15_NoRetry ==
  /\ [](cPosts <= 1)
  /\ [](cPc \in {"posting", "returned"} => cPosts = 1)
  /\ []((cPc = "thrown" /\ cErr.kind \in PostErrors) => cPosts = 1)
  /\ [][ /\ cPc = "posting" =>
              /\ cPc' \in {"returned", "thrown"} /\ cPosts' = cPosts
              /\ cPc' = "thrown" => cErr'.kind \in PostErrors
         /\ cPc \in {"returned", "thrown"} => UNCHANGED cVars ]_vars

\* The POST was answered 429 and the function threw after that one POST.
C15_Witness ==
  cPc = "thrown" /\ cErr = CreateError("SO create failed", 429) /\ cPosts = 1

(***************************************************************************)
(* Claims about the operations of SpecLibOps                               *)
(***************************************************************************)
\* C16: every non-success HTTP response received during an operation makes
\* the operation raise an error: an operation that returns received none
\* (the warnings of the cleanup are not HTTP responses).
C16_NothingSwallowed == ePc = "returned" => eBad = 0

(***************************************************************************)
(* Claims about pickRate (checked under SpecPickRate)                      *)
(***************************************************************************)
\* The rate of a row under a field and its column: the field unless it is
\* missing, then the column.
Missing(x) == x.t \in {"null", "undefined"}
RateOfRow(field, column) == IF Missing(field) THEN column ELSE field
\* A rate as the result gives it: the number, 0 when missing or not finite.
FiniteOrZero(x) == IF x.t = "number" THEN x.v ELSE 0
IsTyped(x) == x.t # "string"

WholeDaysSince(date, now) ==
  IF now < date * HoursPerDay THEN 0 ELSE (now - date * HoursPerDay) \div HoursPerDay

\* C20: the age a run gives a dated invoice is the time of the run minus the
\* invoice date, floored to whole days and 0 when negative: runs on
\* different days of one session age the same invoice differently.
C20_AgeAtRun ==
  (tRunAt # NULL /\ tInv.date # 0) => tAge = WholeDaysSince(tInv.date, tRunAt)

(***************************************************************************)
(* More claims about fetchOutstandingForOrg (checked under SpecOutstanding)*)
(***************************************************************************)
\* The open invoices of the i-th contact that have a positive balance and no
\* date that can be read.
Undated(i) ==
  { k \in InvoicesOf(i) : openInvoices[k].date = 0 /\ Outstanding(openInvoices[k]) > 0 }
\* Those with a positive balance and a date at most 15 days old (or ahead).
Recent(i) ==
  { k \in InvoicesOf(i) :
      /\ openInvoices[k].date # 0 /\ Outstanding(openInvoices[k]) > 0
      /\ AgeInDays(openInvoices[k]) <= 15 }
\* How many elements of the sequence s satisfy Test.
CountIf(s, Test(_)) == Cardinality({ k \in 1..Len(s) : Test(s[k]) })

\* C21: an open invoice with a positive balance and no readable date is not
\* dropped: its full balance is in the first bucket (0-15), beside the
\* balances of the invoices that are at most 15 days old, and the invoice is
\* listed for its contact with age 0.
C21_UndatedKept ==
  \A i \in 1..Len(cur) :
    /\ cur[i].buckets[1] = SumOutstanding(Undated(i)) + SumOutstanding(Recent(i))
    /\ CountIf(cur[i].unpaidInvoices, LAMBDA r : r.invoiceDate = 0 /\ r.age = 0)
         = Cardinality(Undated(i))
    /\ CountIf(cur[i].unpaidInvoices, LAMBDA r : r.invoiceDate = 0 /\ r.age # 0) = 0
    /\ i = Len(cur) => invoicesByCustomer[cur[i].custName] = cur[i].unpaidInvoices

\* A contact with an undated invoice of balance 1000 and a dated one.
C21_Witness ==
  \E i \in 1..Len(cur) :
    /\ Cardinality(Undated(i)) = 1 /\ Cardinality(InvoicesOf(i)) > 1
    /\ cur[i].buckets[1] = 1000000
    /\ \E k \in 1..Len(cur[i].unpaidInvoices) :
         cur[i].unpaidInvoices[k].invoiceDate = 0 /\ cur[i].unpaidInvoices[k].age = 0

\* The unused amount of an advance: the first of its four fields that is
\* present, else what is left of its amount, never below 0.
UnusedFields(a) == <<a.unused_amount, a.unapplied_amount, a.unused_balance, a.balance>>
Present(a) == { k \in 1..4 : UnusedFields(a)[k] # NULL }
AdvanceUnused(a) ==
  IF Present(a) # {}
    THEN UnusedFields(a)[CHOOSE k \in Present(a) : \A j \in Present(a) : k <= j]
  ELSE IF a.amount - a.applied_amount > 0 THEN a.amount - a.applied_amount ELSE 0
\* The unused amount of a payment.
PaymentUnused(p) == IF p.unused_amount = NULL THEN 0 ELSE p.unused_amount

\* The sum of F over the documents of list at the positions in S.
SumAt(list, S, F(_)) ==
  SumSeq([k \in 1..Len(list) |-> IF k \in S THEN F(list[k]) ELSE 0])
\* The positions in list of the documents of the i-th contact.
DocsOf(list, i) == { k \in 1..Len(list) : list[k].customer_id = contacts[i].contact_id }

PaidIn(i, lo, hi) ==
  { k \in DocsOf(payments, i) :
      /\ payments[k].date # 0
      /\ lo <= 1000 - payments[k].date /\ 1000 - payments[k].date <= hi }
PaymentAmount(p) == p.amount
\* The payments of the i-th contact that are in neither window.
PaidOutside(i) == DocsOf(payments, i) \ (PaidIn(i, 0, 15) \cup PaidIn(i, 16, 90))

\* C23: only payments enter the recency summary: a payment dated d days
\* before today adds its amount to 0-15_payments when 0 <= d <= 15, to
\* 16-90_payments when 16 <= d <= 90 and to neither otherwise (a future or
\* unreadable date included); the payments outside both windows still count
\* in Payment with their unused amounts.
C23_Windows ==
  /\ oPc = "start" =>
       \A d \in (0 - 3)..MaxAge :
         LET one == <<Payment(1, DaysAgo(d), 1000, 0)>> IN
         /\ PayWindow(one, 0, 15) = IF 0 <= d /\ d <= 15 THEN 1000 ELSE 0
         /\ PayWindow(one, 16, 90) = IF 16 <= d /\ d <= 90 THEN 1000 ELSE 0
  /\ \A i \in 1..Len(cur) :
       /\ cur[i].p0_15 = SumAt(payments, PaidIn(i, 0, 15), PaymentAmount)
       /\ cur[i].p16_90 = SumAt(payments, PaidIn(i, 16, 90), PaymentAmount)
       /\ cur[i].totalUnused =
            SumAt(payments, PaidIn(i, 0, 15) \cup PaidIn(i, 16, 90), PaymentUnused)
              + SumAt(payments, PaidOutside(i), PaymentUnused)
              + SumAt(advances, DocsOf(advances, i), AdvanceUnused)
  /\ \A n \in DOMAIN rows :
       /\ rows[n].payments_0_15 = HalfUpCents(cur[rows[n].iter].p0_15)
       /\ rows[n].payments_16_90 = HalfUpCents(cur[rows[n].iter].p16_90)

\* A row of a customer with a payment of 5 days ago, a payment without a
\* date and a payment dated ahead, each of 500 and wholly unused: only the
\* first is in a window, all three are in Payment.
C23_Witness ==
  \E n \in DOMAIN rows :
    LET i == rows[n].iter IN
    /\ \E k \in PaidOutside(i) : payments[k].date = 0
    /\ \E k \in PaidOutside(i) : payments[k].date > 1000
    /\ rows[n].payments_0_15 = 500000 /\ rows[n].payments_16_90 = 0
    /\ rows[n].Payment = 1500000

(***************************************************************************)
(* Claims about the New Sale Order screen (checked under SpecNewOrder)     *)
(***************************************************************************)
\* C25: while a creation started from the form is in flight no second one
\* can be started from it, so that one filled form makes the server create
\* at most one sales order.
C25_OneCreate ==
  /\ Cardinality(Creating) <= 1
  /\ \A f \in Forms : nCreated[f] <= 1

(***************************************************************************)
(* Claims about syncBoutiqueImagesMTM (checked under SpecSync)             *)
(***************************************************************************)
\* The files of the documents of the items that are active and in stock on
\* the server.
InStockFiles ==
  UNION { gServer[i].docs : i \in { k \in 1..Len(gServer) : gServer[k].available_stock > 0 } }

\* C26: the cleanup never deletes a local file that belongs to a document of
\* an item that is active and in stock on the server, whether the detail
\* requests and the downloads of the run succeeded or not.
C26_KeepsInStock == gDeleted \cap InStockFiles = {}

(***************************************************************************)
(* Claims about the callers of fetchOutstandingForOrg (under SpecCallers)  *)
(***************************************************************************)
\* The summary of a returned value.
SummaryOf(ret) == ObjGet(ret, "summary")
\* The sum of the amount f over the rows of a summary.
RECURSIVE SumRows(_, _)
SumRows(rs, f) ==
  IF rs = <<>> THEN 0 ELSE ObjGet(Head(rs), f).v + SumRows(Tail(rs), f)

\* C27: the callers consume the value returned by fetchOutstandingForOrg as
\* the per-customer row mapping: after a refresh the screen shows, for a
\* selected customer that has a row, the row summary[customer]; with no
\* customer selected its TOTAL row holds the field-wise sums over the rows of
\* the summary; and a sheet of the workbook gets one data row per entry of
\* the firm's summary.
C27_SummaryConsumed ==
  /\ kPc = "shown" =>
       LET summary == SummaryOf(kRet) IN
       /\ kSelected \in ObjKeys(summary) =>
            currentRow(kRows, kSelected) = ObjGet(summary, kSelected)
       /\ (kSelected = "" /\ Len(summary.v) > 0) =>
            \A f \in {"Total", "Balance"} :
              ObjGet(currentRow(kRows, kSelected), f) =
                JsNum(SumRows(ObjValues(summary), f))
  /\ kXRet.t = "object" => kSheet = ObjValues(SummaryOf(kXRet))

(***************************************************************************)
(* Claims about the firm selector (checked under SpecFirm)                 *)
(***************************************************************************)
\* C28: the customer list a screen holds belongs to the firm now selected:
\* once no cache read and no fetch is pending, a list that came from a
\* fetch was fetched for the selected firm; a fetch started under one firm
\* never fills the list shown after a switch to another firm.
C28_ListOfFirm ==
  (fReads = {} /\ fFetch = "none" /\ fList.src = "fetch" /\ fList.n > 0) =>
    fList.org = fOrg

(***************************************************************************)
(* Claims about the stored history (checked under SpecHistory)             *)
(***************************************************************************)
\* C29: after n completed pushHistory calls the stored history holds the
\* min(5, n) items pushed last, the newest first (the i-th stored item is the
\* item of the (n + 1 - i)-th push).
C29_NewestFive ==
  hPc = "idle" =>
    /\ Len(hStore) = (IF hPushes < 5 THEN hPushes ELSE 5)
    /\ \A i \in 1..Len(hStore) : hStore[i] = hPushes + 1 - i

(***************************************************************************)
(* Claims about the input checks of createSalesOrderMTM (SpecCreate)       *)
(***************************************************************************)
\* The input gives neither customer_id nor customer_name.
NoCustomerGiven == cInput.customer_id = NULL /\ cInput.customer_name = ""
\* The lookup by name failed or found no contact.
LookupUnresolved == cContact \in {"failed", "empty"}
\* No line of the input has a positive quantity together with an item_id or
\* a description.
NoUsableLine ==
  \A i \in 1..Len(cInput.line_items) :
    LET li == cInput.line_items[i] IN
    ~(li.quantity > 0 /\ (li.item_id # "none" \/ li.description))

\* C30: once createSalesOrderMTM is past its checks, an input with neither
\* customer_id nor customer_name, a lookup by name that failed or found no
\* contact, or lines of which none has a positive quantity with an item_id or
\* a description, has raised an error and no POST to /salesorders was sent.
C30_NoPostOnInvalid ==
  (cPc \notin {"idle", "called"} /\ (NoCustomerGiven \/ LookupUnresolved \/ NoUsableLine)) =>
    cPosts = 0 /\ cPc = "thrown" /\ cErr # NoCreateError /\ cResult = NULL
\* A lookup that found no contact, for an input whose lines are usable.
C30_Witness ==
  /\ cPc = "thrown" /\ cContact = "empty" /\ ~NoUsableLine /\ cPosts = 0
  /\ cErr = CreateError("Customer not found", 0)


====
